---------------------------- MODULE Spec2Model ----------------------------
(***************************************************************************)
(* Model of the OAuth 2.0 implicit-grant authorization service             *)
(* (package oauth2: handler, stateStorage, stateMap; Redis state keeper).  *)
(*                                                                         *)
(* Strings that the code inspects character by character (redirect URIs    *)
(* and redirect patterns) are sequences of one-character strings; every    *)
(* other string is an opaque TLA+ string.  A query parameter is the list   *)
(* of its values as in url.Values: <<>> when the parameter is absent,      *)
(* <<v>> when it is present; the handlers read element [0] (here [1]).     *)
(* The clock is counted in ticks.                                          *)
(***************************************************************************)
EXTENDS Integers, Sequences, FiniteSets, TLC

(***************************************************************************)
(* Bounds of the model.                                                    *)
(***************************************************************************)
\* longest redirect URI / redirect pattern drawn for the matching check
MaxLen == 2
\* longest list of registered redirect patterns drawn for the matching check
MaxPatterns == 2
\* most scope tokens in a scope parameter
MaxScopes == 2
\* last clock reading
MaxTime == 3
\* lifetime handed to Persist (the configured state lifetime), in ticks
StateLifetime == 2

(***************************************************************************)
(* Program constants.                                                      *)
(***************************************************************************)
\* accessTokenEncoder.Lifetime default
Lifetime == 60
\* NotBefore: now - 10
NotBeforeSkew == 10
StatusSeeOther == 303
StatusBadRequest == 400
StatusMethodNotAllowed == 405
StatusInternalServerError == 500

(***************************************************************************)
(* Strings as character sequences: strings.HasSuffix / HasPrefix /         *)
(* TrimSuffix.                                                             *)
(***************************************************************************)
Star == <<"*">>

HasPrefix(s, prefix) ==
    /\ Len(prefix) <= Len(s)
    /\ SubSeq(s, 1, Len(prefix)) = prefix

HasSuffix(s, suffix) ==
    /\ Len(suffix) <= Len(s)
    /\ SubSeq(s, Len(s) - Len(suffix) + 1, Len(s)) = suffix

TrimSuffix(s, suffix) ==
    IF HasSuffix(s, suffix) THEN SubSeq(s, 1, Len(s) - Len(suffix)) ELSE s

\* all sequences over S of length at most n
SeqsUpTo(S, n) == UNION {[1..k -> S] : k \in 0..n}

\* position of the first element of s that is not in S, Len(s)+1 if none
RECURSIVE FirstNotIn(_, _, _)
FirstNotIn(s, S, i) ==
    IF i > Len(s) THEN i
    ELSE IF s[i] \notin S THEN i
    ELSE FirstNotIn(s, S, i + 1)

Contains(s, c) == \E i \in 1..Len(s) : s[i] = c

(***************************************************************************)
(* net/url.Parse as far as the handler depends on it: whether the string   *)
(* parses.  Over the characters used here a string fails to parse when it  *)
(* begins with ':' (missing protocol scheme) or when it has no scheme and  *)
(* its first path segment contains ':'.  A scheme is a run of scheme       *)
(* characters followed by ':'.                                             *)
(***************************************************************************)
NonSchemeChars == {"*", ":", "/"}

urlParseOK(s) ==
    LET AllChars == {s[i] : i \in 1..Len(s)}
        stop == FirstNotIn(s, AllChars \ NonSchemeChars, 1)
        hasScheme == stop <= Len(s) /\ s[stop] = ":" /\ stop > 1
        slash == FirstNotIn(s, AllChars \ {"/"}, 1)
        firstSegment == SubSeq(s, 1, slash - 1)
    IN  IF s = Star THEN TRUE
        ELSE IF stop <= Len(s) /\ s[stop] = ":" /\ stop = 1 THEN FALSE
        ELSE IF hasScheme THEN TRUE
        ELSE IF Len(s) > 0 /\ s[1] = "/" THEN TRUE
        ELSE ~Contains(firstSegment, ":")

(***************************************************************************)
(* Configuration of the handler under test: clients, scope provider,       *)
(* IDPs, users (the fixture of TestAuthorizationHandler).                  *)
(***************************************************************************)
\* "http://testclient/", "http://testclient/wildcard/*",
\* "http://testclient/specific/url"; "http://testclient2/a", ":";
\* a client with a single registered redirect
TestClients ==
    [c \in {"testclient1", "testclient2", "testclient3"} |->
        CASE c = "testclient1" ->
                [ID |-> c,
                 Redirects |-> << <<"a">>, <<"a", "w", "*">>, <<"a", "s">> >>,
                 GrantType |-> "token"]
          [] c = "testclient2" ->
                [ID |-> c,
                 Redirects |-> << <<"b">>, <<":">> >>,
                 GrantType |-> "token"]
          [] c = "testclient3" ->
                [ID |-> c,
                 Redirects |-> << <<"c">> >>,
                 GrantType |-> "code"]]

\* testAuthz.users: the scopes each user is authorized for
userScopes ==
    [u \in {"user:1", "user:2"} |->
        IF u = "user:1" THEN {"scope:1", "scope:2"} ELSE {"scope:2", "scope:3"}]

\* testAuthz.scopes: the provider-wide valid scope set
validScopes == UNION {userScopes[u] : u \in DOMAIN userScopes}

\* mutant: the provider accepts any scope
ValidScopeAny(scope) == TRUE

\* Authz.ValidScope(scope) of the provider
ValidScope(scope) == scope \in validScopes

\* Authz.ScopeSetFor(u): the user's scope set, or an error for an unknown user
ScopeSetFor(u) ==
    IF u \in DOMAIN userScopes
    THEN [err |-> FALSE, scopes |-> userScopes[u]]
    ELSE [err |-> TRUE, scopes |-> {}]

\* ScopeSet.ValidScope(scope) of a user's scope set
UserValidScope(scopeSet, scope) == scope \in scopeSet

\* h.idps: the IDP registry
idps == {"testidp", "otheridp"}

\* users an IDP can return from AuthnCallback; "user:3" is unknown to the
\* scope provider
Users == {"user:1", "user:2", "user:3"}
NoUser == "<nil>"

(***************************************************************************)
(* HTTP responses.                                                         *)
(***************************************************************************)
NoLocation == [kind |-> "none"]

\* http.Error(w, body, status)
httpError(body, status) ==
    [status |-> status, body |-> body, location |-> NoLocation]

\* w.WriteHeader(status) with nothing else written
writeHeader(status) ==
    [status |-> status, body |-> "", location |-> NoLocation]

\* handler.errorResponse: 303 to the redirect URI with error and
\* error_description added to its query; a description is the list of the
\* strings it is formatted from
errorResponse(redirectURI, code, desc) ==
    [status |-> StatusSeeOther, body |-> "",
     location |-> [kind |-> "error", uri |-> redirectURI,
                   error |-> code, error_description |-> desc]]

\* the 303 to the IDP's authentication URL (AuthnRedirect of the test IDP:
\* its callback URL with ref=<authzRef>)
idpRedirectResponse(idp, ref) ==
    [status |-> StatusSeeOther, body |-> "",
     location |-> [kind |-> "idp", idp |-> idp, ref |-> ref]]

\* mutant: state is set in the fragment whatever its length
implicitResponseAlwaysState(redirectURI, accessToken, tokenType, lifetime, scope, state) ==
    [status |-> StatusSeeOther, body |-> "",
     location |-> [kind |-> "token", uri |-> redirectURI,
                   access_token |-> accessToken, token_type |-> tokenType,
                   expires_in |-> lifetime, scope |-> scope,
                   state |-> <<state>>]]

\* handler.implicitResponse: 303 to redirectURI#fragment; state is set in the
\* fragment only when it is not empty
implicitResponse(redirectURI, accessToken, tokenType, lifetime, scope, state) ==
    [status |-> StatusSeeOther, body |-> "",
     location |-> [kind |-> "token", uri |-> redirectURI,
                   access_token |-> accessToken, token_type |-> tokenType,
                   expires_in |-> lifetime, scope |-> scope,
                   state |-> IF Len(state) > 0 THEN <<state>> ELSE <<>>]]

(***************************************************************************)
(* serveAuthorizationRequest: the checks, in the order of the code.        *)
(***************************************************************************)
emptyState ==
    [ClientID |-> "", RedirectURI |-> <<>>, ResponseType |-> "",
     Scope |-> <<>>, State |-> "", IDPID |-> ""]

\* one registered pattern against the requested URI (the body of the loop)
allowedMatchesBroken(requested, allowed) ==
    IF HasSuffix(allowed, Star)
    THEN HasPrefix(allowed, requested)
    ELSE HasPrefix(requested, allowed)

allowedMatches(requested, allowed) ==
    IF HasSuffix(allowed, Star)
    THEN HasPrefix(requested, TrimSuffix(allowed, Star))
    ELSE requested = allowed

\* the loop over client.Redirects: the RedirectURI set by the first matching
\* pattern, the empty string when none matches
RECURSIVE matchRedirect(_, _, _)
matchRedirect(requested, redirects, i) ==
    IF i > Len(redirects) THEN <<>>
    ELSE IF allowedMatches(requested, redirects[i])
         THEN (IF HasSuffix(redirects[i], Star) THEN requested ELSE redirects[i])
         ELSE matchRedirect(requested, redirects, i + 1)

\* mutant: falls back to the single registered redirect when the supplied
\* one matches nothing
selectRedirectURIWithFallback(redirectParam, redirects) ==
    IF Len(redirectParam) > 0 /\ matchRedirect(redirectParam[1], redirects, 1) # <<>>
    THEN matchRedirect(redirectParam[1], redirects, 1)
    ELSE IF Len(redirects) = 1 THEN redirects[1]
    ELSE <<>>

\* authzState.RedirectURI after the redirect_uri block
selectRedirectURI(redirectParam, redirects) ==
    IF Len(redirectParam) > 0
    THEN matchRedirect(redirectParam[1], redirects, 1)
    ELSE IF Len(redirects) = 1 THEN redirects[1]
    ELSE <<>>

\* the first scope of the parameter the provider rejects, 0 if none
\* mutant: no scope is looked up
noInvalidScope(scopes, i) == 0

RECURSIVE firstInvalidScope(_, _)
firstInvalidScope(scopes, i) ==
    IF i > Len(scopes) THEN 0
    ELSE IF ~ValidScope(scopes[i]) THEN i
    ELSE firstInvalidScope(scopes, i + 1)

\* the keys of scopeMap
scopeMapOf(scopeParam) ==
    IF Len(scopeParam) > 0
    THEN {scopeParam[1][i] : i \in 1..Len(scopeParam[1])}
    ELSE {}

\* "for k := range scopeMap": Go iterates a map in an unspecified order, so
\* every enumeration of the keys is a possible authzState.Scope
scopeOrders(scopeMap) ==
    {s \in [1..Cardinality(scopeMap) -> scopeMap] :
        \A i, j \in 1..Cardinality(scopeMap) : i # j => s[i] # s[j]}

\* The checks of serveAuthorizationRequest on one request against the client
\* registry: ok with the state built so far (Scope still to be filled from
\* scopeMap), or the response of the first failing check.
\* mutant: idp_id is looked at before scope
authorizationChecksIdpFirst(q, clientMap) ==
    LET known == Len(q.client_id) > 0 /\ q.client_id[1] \in DOMAIN clientMap
        client == clientMap[q.client_id[1]]
        uri == selectRedirectURI(q.redirect_uri, client.Redirects)
        bad == IF Len(q.scope) > 0 THEN firstInvalidScope(q.scope[1], 1) ELSE 0
        fail(r) == [ok |-> FALSE, resp |-> r, state |-> emptyState, scopeMap |-> {}]
    IN  IF q.method # "GET"
        THEN fail(httpError("Invalid method", StatusMethodNotAllowed))
        ELSE IF Len(q.client_id) = 0
        THEN fail(httpError("missing client_id", StatusBadRequest))
        ELSE IF ~known
        THEN fail(httpError("invalid client_id", StatusBadRequest))
        ELSE IF uri = <<>>
        THEN fail(httpError("missing or invalid redirect_uri", StatusBadRequest))
        ELSE IF ~urlParseOK(uri)
        THEN fail(writeHeader(StatusInternalServerError))
        ELSE IF Len(q.response_type) = 0
        THEN fail(errorResponse(uri, "invalid_request", <<"response_type missing">>))
        ELSE IF q.response_type[1] # client.GrantType
        THEN fail(errorResponse(uri, "unsupported_response_type",
                                <<"response_type not supported for client">>))
        ELSE IF Len(q.idp_id) = 0
        THEN fail(errorResponse(uri, "invalid_request", <<"idp_id missing">>))
        ELSE IF q.idp_id[1] \notin idps
        THEN fail(errorResponse(uri, "invalid_request", <<"unknown idp_id">>))
        ELSE IF bad # 0
        THEN fail(errorResponse(uri, "invalid_scope",
                                <<"invalid scope: ", q.scope[1][bad]>>))
        ELSE [ok |-> TRUE, resp |-> writeHeader(0),
              state |-> [ClientID |-> q.client_id[1],
                         RedirectURI |-> uri,
                         ResponseType |-> client.GrantType,
                         Scope |-> <<>>,
                         State |-> IF Len(q.state) > 0 THEN q.state[1] ELSE "",
                         IDPID |-> q.idp_id[1]],
              scopeMap |-> scopeMapOf(q.scope)]

authorizationChecks(q, clientMap) ==
    LET known == Len(q.client_id) > 0 /\ q.client_id[1] \in DOMAIN clientMap
        client == clientMap[q.client_id[1]]
        uri == selectRedirectURI(q.redirect_uri, client.Redirects)
        bad == IF Len(q.scope) > 0 THEN firstInvalidScope(q.scope[1], 1) ELSE 0
        fail(r) == [ok |-> FALSE, resp |-> r, state |-> emptyState, scopeMap |-> {}]
    IN  IF q.method # "GET"
        THEN fail(httpError("Invalid method", StatusMethodNotAllowed))
        ELSE IF Len(q.client_id) = 0
        THEN fail(httpError("missing client_id", StatusBadRequest))
        ELSE IF ~known
        THEN fail(httpError("invalid client_id", StatusBadRequest))
        ELSE IF uri = <<>>
        THEN fail(httpError("missing or invalid redirect_uri", StatusBadRequest))
        ELSE IF ~urlParseOK(uri)
        THEN fail(writeHeader(StatusInternalServerError))
        ELSE IF Len(q.response_type) = 0
        THEN fail(errorResponse(uri, "invalid_request", <<"response_type missing">>))
        ELSE IF q.response_type[1] # client.GrantType
        THEN fail(errorResponse(uri, "unsupported_response_type",
                                <<"response_type not supported for client">>))
        ELSE IF bad # 0
        THEN fail(errorResponse(uri, "invalid_scope",
                                <<"invalid scope: ", q.scope[1][bad]>>))
        ELSE IF Len(q.idp_id) = 0
        THEN fail(errorResponse(uri, "invalid_request", <<"idp_id missing">>))
        ELSE IF q.idp_id[1] \notin idps
        THEN fail(errorResponse(uri, "invalid_request", <<"unknown idp_id">>))
        ELSE [ok |-> TRUE, resp |-> writeHeader(0),
              state |-> [ClientID |-> q.client_id[1],
                         RedirectURI |-> uri,
                         ResponseType |-> client.GrantType,
                         Scope |-> <<>>,
                         State |-> IF Len(q.state) > 0 THEN q.state[1] ELSE "",
                         IDPID |-> q.idp_id[1]],
              scopeMap |-> scopeMapOf(q.scope)]

(***************************************************************************)
(* The state codec (encoding/gob of authorizationState): a type tag and    *)
(* the fields that differ from their zero value; decoding starts from the  *)
(* zero value of the sink and fails on a value of another type.            *)
(***************************************************************************)
stateFields == DOMAIN emptyState

gobEncode(st) ==
    [type |-> "authorizationState",
     fields |-> [n \in {m \in stateFields : st[m] # emptyState[m]} |-> st[n]]]

\* mutant: the decoder does not look at the type of what it reads
gobDecodeAnyType(encoded) ==
    [err |-> FALSE,
     state |-> [n \in stateFields |->
                   IF n \in DOMAIN encoded.fields
                   THEN encoded.fields[n] ELSE emptyState[n]]]

gobDecode(encoded) ==
    IF encoded.type = "authorizationState"
    THEN [err |-> FALSE,
          state |-> [n \in stateFields |->
                        IF n \in DOMAIN encoded.fields
                        THEN encoded.fields[n] ELSE emptyState[n]]]
    ELSE [err |-> TRUE, state |-> emptyState]

(***************************************************************************)
(* stateMap, the in-memory StateKeeper: one call as a whole, i.e. what the *)
(* body does between mutex.Lock and mutex.Unlock.                          *)
(***************************************************************************)
\* mutant: delete leaves the map as it is
keepAll(f, key) == f

\* delete(m, key)
without(f, key) == [k \in DOMAIN f \ {key} |-> f[k]]

\* mutant: Persist leaves alone a key that is in the map
stateMapPersistKeepFirst(vals, exps, key, value, lifetime, t) ==
    IF key \in DOMAIN vals
    THEN [values |-> vals, expiries |-> exps]
    ELSE [values |-> (key :> value) @@ vals,
          expiries |-> (key :> (t + lifetime)) @@ exps]

\* mutant: Persist computes the deadline and forgets the write
stateMapPersistNoWrite(vals, exps, key, value, lifetime, t) ==
    [values |-> vals, expiries |-> exps]

stateMapPersist(vals, exps, key, value, lifetime, t) ==
    [values |-> (key :> value) @@ vals,
     expiries |-> (key :> (t + lifetime)) @@ exps]

\* mutant: Restore reads the entry and leaves it in the map
stateMapRestoreNoDelete(vals, exps, key, t) ==
    [values |-> vals, expiries |-> exps,
     err |-> ~(key \in DOMAIN vals /\ key \in DOMAIN exps /\ ~(t > exps[key])),
     val |-> IF key \in DOMAIN vals THEN vals[key] ELSE gobEncode(emptyState)]

stateMapRestore(vals, exps, key, t) ==
    LET valOk == key \in DOMAIN vals
        expOk == key \in DOMAIN exps
        \* !valOk || !expOk || time.Now().After(exp)
        err == ~valOk \/ ~expOk \/ t > exps[key]
    IN  [values |-> without(vals, key),
         expiries |-> without(exps, key),
         err |-> err,
         val |-> IF err THEN "" ELSE vals[key]]

(***************************************************************************)
(* accessTokenEncoder.Encode: the payload that is signed.                  *)
(***************************************************************************)
Jtis == {"jti:1", "jti:2"}

\* mutant: the token is valid from the moment it is issued
accessTokenPayloadNoSkew(issuer, subject, scopes, t, jti) ==
    [iss |-> issuer, sub |-> subject, iat |-> t, nbf |-> t,
     exp |-> t + Lifetime, jti |-> jti, scopes |-> scopes]

accessTokenPayload(issuer, subject, scopes, t, jti) ==
    [iss |-> issuer, sub |-> subject, iat |-> t, nbf |-> t - NotBeforeSkew,
     exp |-> t + Lifetime, jti |-> jti, scopes |-> scopes]

(***************************************************************************)
(* serveIDPCallback after the state has been restored.                     *)
(***************************************************************************)
\* mutant: every requested scope is granted
grantAll(stateScope, scopeSet) == stateScope

\* the loop that appends the scopes of state.Scope the user's set accepts
grantedScopes(stateScope, scopeSet) ==
    SelectSeq(stateScope, LAMBDA sc : UserValidScope(scopeSet, sc))

\* mutant: the handler goes on without looking at the user
callbackResponseNoUserCheck(state, user, t, jti, encodeOk) ==
    LET uri == state.RedirectURI
        set == ScopeSetFor(user)
        granted == IF Len(state.Scope) > 0
                   THEN grantedScopes(state.Scope, set.scopes) ELSE <<>>
    IN  IF ~urlParseOK(uri)
        THEN writeHeader(StatusInternalServerError)
        ELSE IF Len(state.Scope) > 0 /\ set.err
        THEN writeHeader(StatusInternalServerError)
        ELSE IF ~encodeOk
        THEN errorResponse(uri, "server_error", <<"internal server error">>)
        ELSE implicitResponse(uri, accessTokenPayload("", user, granted, t, jti),
                              "bearer", Lifetime, granted, state.State)

callbackResponse(state, user, t, jti, encodeOk) ==
    LET uri == state.RedirectURI
        set == ScopeSetFor(user)
        granted == IF Len(state.Scope) > 0
                   THEN grantedScopes(state.Scope, set.scopes) ELSE <<>>
    IN  IF ~urlParseOK(uri)
        THEN writeHeader(StatusInternalServerError)
        ELSE IF user = NoUser
        THEN errorResponse(uri, "access_denied", <<"couldn't authenticate user">>)
        ELSE IF Len(state.Scope) > 0 /\ set.err
        THEN writeHeader(StatusInternalServerError)
        ELSE IF ~encodeOk
        THEN errorResponse(uri, "server_error", <<"internal server error">>)
        ELSE implicitResponse(uri, accessTokenPayload("", user, granted, t, jti),
                              "bearer", Lifetime, granted, state.State)

(***************************************************************************)
(* State.                                                                  *)
(***************************************************************************)
VARIABLES
    now,        \* the wall clock
    clients,    \* h.clientMap
    inputs,     \* the authorize requests user agents may send
    idpUsers,   \* the users (or NoUser) AuthnCallback may return
    values,     \* stateMap.values
    expiries,   \* stateMap.expiries
    usedRefs,   \* reference tokens generated so far
    issued,     \* reference tokens a user agent has received in a Location
    authorize,  \* the authorize handler in flight
    callback,   \* the callback handlers in flight
    resp,       \* the response written by the last step, with its request
    persisted,  \* history: per reference, what authnSession persisted
    restores,   \* history: per reference, number of successful restores
    tokens,     \* history: per reference, number of access-token redirects
    keeper,     \* the StateKeeper in use: "stateMap" or "redisStorage"
    mutex,      \* stateMap.mutex: "free" or the goroutine holding it
    threads,    \* goroutines calling the StateKeeper directly
    redis,      \* the keys of the Redis server, with their expiry
    entry,      \* history: per key, the last Persist and the restores since
    jose,       \* the JWK set under construction or in use, and its last call
    codec,      \* a state on its way through stateStorage.persist and restore
    authz,      \* the scope provider datapuntAuthz, its updater and its callers
    ret         \* the return of the StateKeeper call that ended in the last step

engineVars == <<now, clients, inputs, idpUsers, values, expiries, usedRefs, issued,
                authorize, callback, resp, persisted, restores, tokens>>

storeVars == <<keeper, mutex, threads, redis, entry, jose, codec, authz>>

vars == <<engineVars, storeVars, ret>>

\* the reference tokens authnSession can draw (rand.Read is taken to return
\* a value it has not returned before; a behaviour follows the exchange of
\* one reference), the empty reference, and a reference no authorize
\* request produced ("token=test")
Refs == {"ref:1"}
EmptyRef == ""
BogusRef == "test"
\* goroutines serving callbacks
Slots == {"cb:1", "cb:2"}

Query(method, client, redirect, rtype, state, scope, idp) ==
    [method |-> method, client_id |-> client, redirect_uri |-> redirect,
     response_type |-> rtype, state |-> state, scope |-> scope, idp_id |-> idp]

idleAuthorize == [pc |-> "idle"]
idleCallback == [pc |-> "idle"]
noResponse == [handler |-> "none"]
noReturn == [op |-> "none"]
\* no JWKS document has been handed to LoadJWKSet
idleJose == [pc |-> "idle"]
\* no state is handed to the codec outside the handlers
idleCodec == [pc |-> "idle"]
idleAuthz == [pc |-> "idle"]

\* no goroutine calls the StateKeeper behind the handler's back
InitKeeper ==
    /\ keeper = "stateMap"
    /\ mutex = "free"
    /\ threads = << >>
    /\ redis = << >>
    /\ entry = << >>
    /\ jose = idleJose
    /\ codec = idleCodec
    /\ authz = idleAuthz
    /\ ret = noReturn

\* the requests of the handler tests, and a few more
EngineInputs ==
    { Query("GET", <<"testclient1">>, << <<"a", "w", "x">> >>, <<"token">>,
            <<"state">>, << <<"scope:1", "scope:2", "scope:3">> >>, <<"testidp">>),
      Query("GET", <<"testclient1">>, << <<"a">> >>, <<"token">>,
            <<>>, << <<"scope:2", "scope:2">> >>, <<"otheridp">>),
      Query("GET", <<"testclient3">>, <<>>, <<"code">>,
            <<"">>, <<>>, <<"testidp">>),
      Query("GET", <<>>, <<>>, <<>>, <<>>, <<>>, <<>>),
      Query("GET", <<"testclient1">>, << <<"x">> >>, <<"token">>,
            <<>>, <<>>, <<"testidp">>),
      Query("GET", <<"testclient1">>, << <<"a">> >>, <<"token">>,
            <<>>, << <<"scope:1", "thisisnoscope">> >>, <<"testidp">>),
      Query("POST", <<"testclient1">>, << <<"a">> >>, <<"token">>,
            <<>>, <<>>, <<"testidp">>) }

InitEngine ==
    /\ InitKeeper
    /\ now = 0
    /\ clients = TestClients
    /\ inputs = EngineInputs
    /\ idpUsers = Users \cup {NoUser}
    /\ values = << >>
    /\ expiries = << >>
    /\ usedRefs = {}
    /\ issued = {}
    /\ authorize = idleAuthorize
    /\ callback = [c \in {"cb:1"} |-> idleCallback]
    /\ resp = noResponse
    /\ persisted = << >>
    /\ restores = [r \in Refs |-> 0]
    /\ tokens = [r \in Refs |-> 0]

(***************************************************************************)
(* The authorize endpoint.                                                 *)
(***************************************************************************)
\* serveAuthorizationRequest up to the call of authnSession: a request that
\* fails a check is answered at once
AuthorizeRequest ==
    /\ authorize.pc = "idle"
    /\ \E q \in inputs :
         LET c == authorizationChecks(q, clients) IN
         IF c.ok
         THEN /\ \E order \in scopeOrders(c.scopeMap) :
                   authorize' = [pc |-> "session", req |-> q,
                                 state |-> [c.state EXCEPT !.Scope = order]]
              /\ resp' = noResponse
         ELSE /\ resp' = [handler |-> "authorize", req |-> q, rsp |-> c.resp]
              /\ UNCHANGED authorize
    /\ UNCHANGED <<storeVars, ret, now, clients, inputs, idpUsers, values, expiries, usedRefs, issued,
                   callback, persisted, restores, tokens>>

\* mutant: the error of stateStore.persist is dropped and the redirect to
\* the IDP is returned all the same
AuthnSessionIgnoreError ==
    /\ authorize.pc = "session"
    /\ \E b64Token \in Refs \ usedRefs, redirOk \in BOOLEAN, persistOk \in BOOLEAN :
         LET st == authorize.state
             uri == st.RedirectURI
             stored == stateMapPersist(values, expiries, b64Token,
                                       gobEncode(st), StateLifetime, now)
             failed == errorResponse(uri, "server_error", <<"internal server error">>)
         IN
         /\ usedRefs' = usedRefs \cup {b64Token}
         /\ IF redirOk /\ persistOk
            THEN /\ values' = stored.values
                 /\ expiries' = stored.expiries
                 /\ persisted' = (b64Token :> [state |-> st, req |-> authorize.req,
                                               deadline |-> now + StateLifetime])
                                 @@ persisted
                 /\ authorize' = [authorize EXCEPT !.pc = "respond"] @@
                                 [ref |-> b64Token,
                                  rsp |-> idpRedirectResponse(st.IDPID, b64Token)]
            ELSE /\ UNCHANGED <<values, expiries, persisted>>
                 /\ authorize' = [authorize EXCEPT !.pc = "respond"] @@
                                 [ref |-> b64Token,
                                  rsp |-> IF redirOk
                                          THEN idpRedirectResponse(st.IDPID, b64Token)
                                          ELSE failed]
    /\ resp' = noResponse
    /\ UNCHANGED <<storeVars, ret, now, clients, inputs, idpUsers, issued, callback, restores, tokens>>

\* authnSession: a fresh token, idp.AuthnRedirect, stateStore.persist; the
\* keeper may fail (StateKeeper.Persist returns an error and stores nothing)
AuthnSession ==
    /\ authorize.pc = "session"
    /\ \E b64Token \in Refs \ usedRefs, redirOk \in BOOLEAN, persistOk \in BOOLEAN :
         LET st == authorize.state
             uri == st.RedirectURI
             stored == stateMapPersist(values, expiries, b64Token,
                                       gobEncode(st), StateLifetime, now)
             failed == errorResponse(uri, "server_error", <<"internal server error">>)
         IN
         /\ usedRefs' = usedRefs \cup {b64Token}
         /\ IF redirOk /\ persistOk
            THEN /\ values' = stored.values
                 /\ expiries' = stored.expiries
                 /\ persisted' = (b64Token :> [state |-> st, req |-> authorize.req,
                                               deadline |-> now + StateLifetime])
                                 @@ persisted
                 /\ authorize' = [authorize EXCEPT !.pc = "respond"] @@
                                 [ref |-> b64Token,
                                  rsp |-> idpRedirectResponse(st.IDPID, b64Token)]
            ELSE /\ UNCHANGED <<values, expiries, persisted>>
                 /\ authorize' = [authorize EXCEPT !.pc = "respond"] @@
                                 [ref |-> b64Token, rsp |-> failed]
    /\ resp' = noResponse
    /\ UNCHANGED <<storeVars, ret, now, clients, inputs, idpUsers, issued, callback, restores, tokens>>

\* the response of serveAuthorizationRequest after authnSession: the user
\* agent learns the reference from the Location of the 303 to the IDP
AuthorizeRespond ==
    /\ authorize.pc = "respond"
    /\ resp' = [handler |-> "authorize", req |-> authorize.req,
                rsp |-> authorize.rsp]
    /\ issued' = IF authorize.rsp.location.kind = "idp"
                 THEN issued \cup {authorize.ref} ELSE issued
    /\ authorize' = idleAuthorize
    /\ UNCHANGED <<storeVars, ret, now, clients, inputs, idpUsers, values, expiries, usedRefs,
                   callback, persisted, restores, tokens>>

NextAuthorize == AuthorizeRequest \/ AuthnSession \/ AuthorizeRespond

(***************************************************************************)
(* The callback endpoint.                                                  *)
(***************************************************************************)
\* A callback request together with what idp.AuthnCallback makes of it: the
\* reference, the user (NoUser for nil) and whether it returns an error.
\* A user agent can present a reference it was sent, no reference, or a
\* made-up one.
CallbackInputs ==
    { [method |-> "POST", idp |-> "testidp", ref |-> BogusRef,
       user |-> NoUser, err |-> FALSE],
      [method |-> "GET", idp |-> "unknownidp", ref |-> BogusRef,
       user |-> NoUser, err |-> FALSE] }
    \cup { [method |-> "GET", idp |-> i, ref |-> r, user |-> u, err |-> FALSE] :
              i \in idps, r \in issued \cup {EmptyRef, BogusRef},
              u \in idpUsers }
    \cup { [method |-> "GET", idp |-> i, ref |-> r, user |-> NoUser, err |-> TRUE] :
              i \in idps, r \in issued \cup {EmptyRef, BogusRef} }

\* the answer of serveIDPCallback to a request that does not get as far as
\* the state store
callbackEarlyResponse(req) ==
    IF req.method # "GET"
    THEN httpError("Invalid method", StatusMethodNotAllowed)
    ELSE IF req.idp \notin idps
    \* the body goes on with the id taken from the path
    THEN httpError("Unknown IdP", StatusBadRequest)
    ELSE IF req.err
    THEN writeHeader(StatusInternalServerError)
    ELSE httpError("Can't relate callback to authorization request",
                   StatusBadRequest)

\* mutant: the IDP registry is not consulted
callbackRejectedEarlyNoIdp(req) ==
    req.method # "GET" \/ req.err \/ req.ref = EmptyRef

\* mutant: the error of AuthnCallback is not looked at
callbackRejectedEarlyNoErr(req) ==
    req.method # "GET" \/ req.idp \notin idps \/ req.ref = EmptyRef

\* mutant: an empty reference is taken to the state store
callbackRejectedEarlyNoRef(req) ==
    req.method # "GET" \/ req.idp \notin idps \/ req.err

\* whether the request is answered before the state store is consulted
callbackRejectedEarly(req) ==
    req.method # "GET" \/ req.idp \notin idps \/ req.err \/ req.ref = EmptyRef

\* serveIDPCallback up to the call of stateStore.restore
CallbackRequest(c) ==
    /\ callback[c].pc = "idle"
    /\ \E req \in CallbackInputs :
         IF callbackRejectedEarly(req)
         THEN /\ resp' = [handler |-> "callback", req |-> req,
                          reachedStore |-> FALSE, restored |-> FALSE,
                          state |-> emptyState,
                          rsp |-> callbackEarlyResponse(req)]
              /\ UNCHANGED callback
         ELSE /\ callback' = [callback EXCEPT ![c] = [pc |-> "restore", req |-> req]]
              /\ resp' = noResponse
    /\ UNCHANGED <<storeVars, ret, now, clients, inputs, idpUsers, values, expiries, usedRefs, issued,
                   authorize, persisted, restores, tokens>>

\* stateStorage.restore: StateKeeper.Restore, then the gob decoding
stateStorageRestore(vals, exps, key, t) ==
    LET r == stateMapRestore(vals, exps, key, t)
        d == gobDecode(r.val)
    IN  [values |-> r.values, expiries |-> r.expiries,
         err |-> r.err \/ d.err,
         state |-> IF r.err THEN emptyState ELSE d.state]

bump(n) == IF n < 2 THEN n + 1 ELSE n

\* serveIDPCallback from stateStore.restore to the response; Encode may fail
CallbackRestore(c) ==
    /\ callback[c].pc = "restore"
    /\ \E jti \in Jtis, encodeOk \in BOOLEAN :
         LET req == callback[c].req
             r == stateStorageRestore(values, expiries, req.ref, now)
             rsp == IF r.err
                    THEN httpError("invalid state token", StatusBadRequest)
                    ELSE callbackResponse(r.state, req.user, now, jti, encodeOk)
         IN
         /\ values' = r.values
         /\ expiries' = r.expiries
         /\ resp' = [handler |-> "callback", req |-> req,
                     reachedStore |-> TRUE, restored |-> ~r.err,
                     state |-> r.state, rsp |-> rsp]
         /\ restores' = IF ~r.err /\ req.ref \in Refs
                        THEN [restores EXCEPT ![req.ref] = bump(@)]
                        ELSE restores
         /\ tokens' = IF rsp.location.kind = "token" /\ req.ref \in Refs
                      THEN [tokens EXCEPT ![req.ref] = bump(@)]
                      ELSE tokens
    /\ callback' = [callback EXCEPT ![c] = idleCallback]
    /\ UNCHANGED <<storeVars, ret, now, clients, inputs, idpUsers, usedRefs, issued, authorize, persisted>>

\* time passes
Tick ==
    /\ now < MaxTime
    /\ now' = now + 1
    /\ resp' = noResponse
    /\ ret' = noReturn
    /\ UNCHANGED <<storeVars, clients, inputs, idpUsers, values, expiries, usedRefs, issued,
                   authorize, callback, persisted, restores, tokens>>

Next ==
    \/ AuthorizeRequest
    \/ AuthnSession
    \/ AuthorizeRespond
    \/ \E c \in DOMAIN callback : CallbackRequest(c)
    \/ \E c \in DOMAIN callback : CallbackRestore(c)
    \/ Tick

Spec == InitEngine /\ [][Next]_vars

(***************************************************************************)
(* The authorize endpoint alone, on one request drawn from all             *)
(* combinations of parameters (against the test clients), or on one        *)
(* redirect_uri against one client with any list of registered patterns.   *)
(***************************************************************************)
\* redirect_uri values sent to the test clients
TestURIs ==
    { <<"a">>, <<"a", "w", "x">>, <<"a", "w", "*">>, <<"a", "w">>, <<"a", "s">>,
      <<"b">>, <<":">>, <<"c">>, <<"x">>, << >> }

\* the words of a scope parameter (strings.Split yields "" for an empty
\* parameter and between two spaces)
ScopeTokens == {"scope:1", "scope:2", "thisisnoscope", ""}

AllQueries ==
    { Query("GET", c, r, t, st, sc, i) :
        c \in {<<>>, <<"testclient1">>, <<"testclient2">>, <<"testclient3">>, <<"bad">>},
        r \in {<<>>} \cup {<<u>> : u \in TestURIs},
        t \in {<<>>, <<"token">>, <<"code">>},
        st \in {<<>>, <<"state">>},
        sc \in {<<>>} \cup {<<l>> : l \in SeqsUpTo(ScopeTokens, MaxScopes) \ {<<>>}},
        i \in {<<>>, <<"testidp">>, <<"invalid">>} }
    \cup { Query("POST", <<"testclient1">>, << <<"a">> >>, <<"token">>, <<>>, <<>>,
                 <<"testidp">>) }

\* redirect URIs and patterns of the matching check
PatternChars == {"a", "*"}
Strs == SeqsUpTo(PatternChars, MaxLen)

InitCommon ==
    /\ InitKeeper
    /\ now = 0
    /\ idpUsers = {}
    /\ values = << >>
    /\ expiries = << >>
    /\ usedRefs = {}
    /\ issued = {}
    /\ authorize = idleAuthorize
    /\ callback = << >>
    /\ resp = noResponse
    /\ persisted = << >>
    /\ restores = [r \in Refs |-> 0]
    /\ tokens = [r \in Refs |-> 0]

InitQueries ==
    /\ clients = TestClients
    /\ \E q \in AllQueries : inputs = {q}
    /\ InitCommon

InitRedirects ==
    /\ \E l \in SeqsUpTo(Strs, MaxPatterns) :
         clients = [c \in {"testclient1"} |->
                       [ID |-> c, Redirects |-> l, GrantType |-> "token"]]
    /\ \E r \in {<<>>} \cup {<<u>> : u \in Strs} :
         inputs = {Query("GET", <<"testclient1">>, r, <<"token">>, <<>>, <<>>,
                         <<"testidp">>)}
    /\ InitCommon

InitAuthorize == InitQueries \/ InitRedirects

SpecAuthorize == InitAuthorize /\ [][NextAuthorize]_vars

(***************************************************************************)
(* The StateKeepers on their own: goroutines call Persist and Restore      *)
(* directly.  A call on the in-memory stateMap is a sequence of steps, at  *)
(* most one per statement group, so that the mutex is what makes it        *)
(* atomic; a call on redisStorage is the command sequence sent to the      *)
(* server, which runs a single command and a MULTI/EXEC block atomically.  *)
(***************************************************************************)
Threads == {"t1", "t2"}
Keys == {"k1", "k2"}
Vals == {"v1", "v2"}
idleThread == [pc |-> "idle"]

\* mutant: Lock returns although another goroutine holds the mutex
MutexIgnored(m) == TRUE

\* sync.Mutex: Lock returns when no goroutine holds the mutex
MutexFree(m) == m = "free"

\* mutant: the deadline is never found to have passed
AfterNever(t, exp) == FALSE

\* time.Now().After(exp)
After(t, exp) == t > exp

\* the bookkeeping of a Persist and of a successful Restore
recordPersist(key, value, deadline) ==
    (key :> [value |-> value, deadline |-> deadline, taken |-> 0]) @@ entry

\* what a Persist found under its key: nothing live, or a value and its
\* deadline
noPrev == [value |-> "", deadline |-> 0]

recordRestore(key, err) ==
    IF ~err /\ key \in DOMAIN entry
    THEN [entry EXCEPT ![key].taken = bump(@)]
    ELSE entry

storeFrame ==
    UNCHANGED <<now, clients, inputs, idpUsers, usedRefs, issued, authorize,
                callback, resp, persisted, restores, tokens, keeper, jose, codec, authz>>

\* a goroutine calls stateMap.Persist or stateMap.Restore
StateMapCall(t) ==
    /\ keeper = "stateMap"
    /\ threads[t].pc = "idle"
    /\ \/ \E k \in Keys, v \in Vals :
             threads' = [threads EXCEPT ![t] =
                            [pc |-> "lock", op |-> "Persist", key |-> k, value |-> v]]
       \/ \E k \in Keys :
             threads' = [threads EXCEPT ![t] =
                            [pc |-> "lock", op |-> "Restore", key |-> k]]
    /\ ret' = noReturn
    /\ storeFrame
    /\ UNCHANGED <<values, expiries, mutex, redis, entry>>

\* s.mutex.Lock()
StateMapLock(t) ==
    /\ threads[t].pc = "lock"
    /\ MutexFree(mutex)
    /\ mutex' = t
    /\ threads' = [threads EXCEPT ![t].pc = "body"]
    /\ ret' = noReturn
    /\ storeFrame
    /\ UNCHANGED <<values, expiries, redis, entry>>

\* Persist: exp := time.Now().Add(lifetime); s.values[key] = value;
\* s.expiries[key] = exp
StateMapPersistWrite(t) ==
    /\ threads[t].pc = "body"
    /\ threads[t].op = "Persist"
    /\ LET th == threads[t]
           w == stateMapPersist(values, expiries, th.key, th.value,
                                StateLifetime, now)
       IN  /\ values' = w.values
           /\ expiries' = w.expiries
           /\ entry' = recordPersist(th.key, th.value, w.expiries[th.key])
    /\ threads' = [threads EXCEPT ![t] =
                       [pc |-> "return", op |-> "Persist", key |-> @.key,
                        value |-> @.value,
                        prev |-> IF /\ @.key \in DOMAIN values
                                    /\ @.key \in DOMAIN expiries
                                    /\ ~After(now, expiries[@.key])
                                 THEN [value |-> values[@.key],
                                       deadline |-> expiries[@.key]]
                                 ELSE noPrev]]
    /\ ret' = noReturn
    /\ storeFrame
    /\ UNCHANGED <<mutex, redis>>

\* Persist: return nil, and the deferred s.mutex.Unlock()
StateMapPersistReturn(t) ==
    /\ threads[t].pc = "return"
    /\ threads[t].op = "Persist"
    /\ mutex' = "free"
    /\ ret' = [op |-> "Persist", key |-> threads[t].key, err |-> FALSE,
               val |-> threads[t].value, prev |-> threads[t].prev]
    /\ threads' = [threads EXCEPT ![t] = idleThread]
    /\ storeFrame
    /\ UNCHANGED <<values, expiries, redis, entry>>

\* Restore: val, valOk := s.values[key]; exp, expOk := s.expiries[key]
StateMapRestoreLookup(t) ==
    /\ threads[t].pc = "body"
    /\ threads[t].op = "Restore"
    /\ LET key == threads[t].key
           valOk == key \in DOMAIN values
           expOk == key \in DOMAIN expiries
       IN  threads' = [threads EXCEPT ![t] =
                          [pc |-> "delete", op |-> "Restore", key |-> key,
                           val |-> IF valOk THEN values[key] ELSE "",
                           valOk |-> valOk,
                           exp |-> IF expOk THEN expiries[key] ELSE 0,
                           expOk |-> expOk]]
    /\ ret' = noReturn
    /\ storeFrame
    /\ UNCHANGED <<values, expiries, mutex, redis, entry>>

\* Restore: the two deletes
StateMapRestoreDelete(t) ==
    /\ threads[t].pc = "delete"
    /\ expiries' = IF threads[t].expOk
                   THEN without(expiries, threads[t].key) ELSE expiries
    /\ values' = IF threads[t].valOk
                 THEN without(values, threads[t].key) ELSE values
    /\ threads' = [threads EXCEPT ![t].pc = "return"]
    /\ ret' = noReturn
    /\ storeFrame
    /\ UNCHANGED <<mutex, redis, entry>>

\* Restore: the check of what was found against the clock, the return, and
\* the deferred s.mutex.Unlock()
StateMapRestoreReturn(t) ==
    /\ threads[t].pc = "return"
    /\ threads[t].op = "Restore"
    /\ LET th == threads[t]
           err == ~th.valOk \/ ~th.expOk \/ After(now, th.exp)
       IN  /\ ret' = [op |-> "Restore", key |-> th.key, err |-> err,
                      val |-> IF err THEN "" ELSE th.val]
           /\ entry' = recordRestore(th.key, err)
    /\ mutex' = "free"
    /\ threads' = [threads EXCEPT ![t] = idleThread]
    /\ storeFrame
    /\ UNCHANGED <<values, expiries, redis>>

(***************************************************************************)
(* redisStorage: the server keeps a key until its expiry or its deletion.  *)
(***************************************************************************)
\* the reply to GET: the value, or nil for a key that is absent or expired
redisGet(db, key, t) ==
    IF key \in DOMAIN db /\ t < db[key].exp
    THEN [nil |-> FALSE, value |-> db[key].value]
    ELSE [nil |-> TRUE, value |-> ""]

\* SET key value EX seconds
redisSetEx(db, key, value, seconds, t) ==
    (key :> [value |-> value, exp |-> t + seconds]) @@ db

\* Persist: conn.Do("SET", key, value, "EX", int(timeout.Seconds()))
RedisPersist(t) ==
    /\ keeper = "redisStorage"
    /\ threads[t].pc = "idle"
    /\ \E k \in Keys, v \in Vals :
         /\ redis' = redisSetEx(redis, k, v, StateLifetime, now)
         /\ entry' = recordPersist(k, v, now + StateLifetime)
         /\ ret' = [op |-> "Persist", key |-> k, err |-> FALSE, val |-> v,
                     prev |-> IF redisGet(redis, k, now).nil THEN noPrev
                              ELSE [value |-> redis[k].value,
                                    deadline |-> redis[k].exp]]
    /\ storeFrame
    /\ UNCHANGED <<values, expiries, mutex, threads>>

\* Restore: MULTI, GET key and DEL key are queued on the connection
RedisRestoreSend(t) ==
    /\ keeper = "redisStorage"
    /\ threads[t].pc = "idle"
    /\ \E k \in Keys :
         threads' = [threads EXCEPT ![t] =
                        [pc |-> "exec", op |-> "Restore", key |-> k]]
    /\ ret' = noReturn
    /\ storeFrame
    /\ UNCHANGED <<values, expiries, mutex, redis, entry>>

\* Restore: EXEC runs the queued GET and DEL as one transaction; vals[0] is
\* the reply to GET
RedisRestoreExec(t) ==
    /\ threads[t].pc = "exec"
    /\ LET key == threads[t].key
           vals0 == redisGet(redis, key, now)
       IN  /\ redis' = without(redis, key)
           /\ ret' = [op |-> "Restore", key |-> key, err |-> vals0.nil,
                      val |-> vals0.value]
           /\ entry' = recordRestore(key, vals0.nil)
    /\ threads' = [threads EXCEPT ![t] = idleThread]
    /\ storeFrame
    /\ UNCHANGED <<values, expiries, mutex>>

InitStore ==
    /\ keeper \in {"stateMap", "redisStorage"}
    /\ mutex = "free"
    /\ threads = [t \in Threads |-> idleThread]
    /\ redis = << >>
    /\ entry = << >>
    /\ jose = idleJose
    /\ codec = idleCodec
    /\ authz = idleAuthz
    /\ ret = noReturn
    /\ now = 0
    /\ idpUsers = {}
    /\ clients = << >>
    /\ inputs = {}
    /\ values = << >>
    /\ expiries = << >>
    /\ usedRefs = {}
    /\ issued = {}
    /\ authorize = idleAuthorize
    /\ callback = << >>
    /\ resp = noResponse
    /\ persisted = << >>
    /\ restores = [r \in Refs |-> 0]
    /\ tokens = [r \in Refs |-> 0]

NextStore ==
    \/ \E t \in Threads : StateMapCall(t)
    \/ \E t \in Threads : StateMapLock(t)
    \/ \E t \in Threads : StateMapPersistWrite(t)
    \/ \E t \in Threads : StateMapPersistReturn(t)
    \/ \E t \in Threads : StateMapRestoreLookup(t)
    \/ \E t \in Threads : StateMapRestoreDelete(t)
    \/ \E t \in Threads : StateMapRestoreReturn(t)
    \/ \E t \in Threads : RedisPersist(t)
    \/ \E t \in Threads : RedisRestoreSend(t)
    \/ \E t \in Threads : RedisRestoreExec(t)
    \/ Tick

SpecStore == InitStore /\ [][NextStore]_vars

(***************************************************************************)
(* Vocabulary of the properties, stated from the specification and not     *)
(* from the handler's code.                                                *)
(***************************************************************************)
\* a registered pattern matches a URI: equality, or for PREFIX* the URI
\* starts with PREFIX
PatternMatches(uri, pattern) ==
    IF Len(pattern) > 0 /\ pattern[Len(pattern)] = "*"
    THEN /\ Len(uri) >= Len(pattern) - 1
         /\ \A i \in 1..(Len(pattern) - 1) : uri[i] = pattern[i]
    ELSE uri = pattern

SomePatternMatches(uri, redirects) ==
    \E i \in 1..Len(redirects) : PatternMatches(uri, redirects[i])

\* the request names a registered client
ClientResolved(q) == Len(q.client_id) > 0 /\ q.client_id[1] \in DOMAIN clients

\* the redirect URI selected for a request of a registered client: the
\* supplied one when a pattern matches it, the single registered one when
\* none is supplied; the empty string stands for "none"
SelectedRedirect(q) ==
    LET redirects == clients[q.client_id[1]].Redirects IN
    IF Len(q.redirect_uri) > 0
    THEN (IF SomePatternMatches(q.redirect_uri[1], redirects)
          THEN q.redirect_uri[1] ELSE <<>>)
    ELSE IF Len(redirects) = 1 THEN redirects[1] ELSE <<>>

AuthorizeAnswered == resp.handler = "authorize" /\ resp.req.method = "GET"
IsErrorRedirect(r) == r.status = StatusSeeOther /\ r.location.kind = "error"
IsIdpRedirect(r) == r.status = StatusSeeOther /\ r.location.kind = "idp"
IsTokenRedirect(r) == r.status = StatusSeeOther /\ r.location.kind = "token"
BadRedirectAnswer == httpError("missing or invalid redirect_uri", StatusBadRequest)

\* the states in the store, decoded
StoredStates == {gobDecode(values[k]).state : k \in DOMAIN values}

(***************************************************************************)
(* Vocabulary for the StateKeepers.                                        *)
(***************************************************************************)
RestoreReturned == ret.op = "Restore"
\* the goroutines between Lock and Unlock
InCriticalSection ==
    {t \in DOMAIN threads : threads[t].pc \in {"body", "delete", "return"}}

(***************************************************************************)
(* C2: in the in-memory store, after a Persist of v under k and until the  *)
(* next Persist under k, at most one Restore of k succeeds, it returns v,  *)
(* and a Restore of k after it returns an error, whatever the clock says.  *)
(***************************************************************************)
C2_SingleConsumption ==
    keeper = "stateMap" =>
        /\ \A k \in DOMAIN entry : entry[k].taken <= 1
        /\ (RestoreReturned /\ ~ret.err) =>
               /\ ret.key \in DOMAIN entry
               /\ ret.val = entry[ret.key].value
               /\ ret.key \notin DOMAIN values
               /\ ret.key \notin DOMAIN expiries
        /\ (RestoreReturned /\ ret.err) => ret.val = ""

\* a second Restore fails before the deadline of the Persist
C2_Witness ==
    /\ keeper = "stateMap"
    /\ RestoreReturned
    /\ ret.err
    /\ ret.key \in DOMAIN entry
    /\ entry[ret.key].taken = 1
    /\ now < entry[ret.key].deadline

C3_WitnessRedis ==
    /\ keeper = "redisStorage"
    /\ RestoreReturned
    /\ ~ret.err
    /\ \E t \in DOMAIN threads :
          /\ threads[t].pc = "exec"
          /\ threads[t].key = ret.key


(***************************************************************************)
(* C4: when the 303 to the IDP is written (and while it is about to be     *)
(* written) the state is in the store under the generated reference; and   *)
(* a callback that reaches the store with an issued reference no later     *)
(* than the deadline finds the state, unless an earlier callback took it.  *)
(***************************************************************************)
C4_PersistedBeforeRedirect ==
    /\ (authorize.pc = "respond" /\ IsIdpRedirect(authorize.rsp))
          => /\ authorize.ref \in DOMAIN values
             /\ gobDecode(values[authorize.ref]).state = authorize.state
             /\ authorize.ref \notin issued
    /\ (resp.handler = "authorize" /\ IsIdpRedirect(resp.rsp))
          => /\ resp.rsp.location.ref \in DOMAIN values
             /\ resp.rsp.location.ref \in DOMAIN expiries
             /\ gobDecode(values[resp.rsp.location.ref]).state
                   = persisted[resp.rsp.location.ref].state
    /\ (/\ resp.handler = "callback"
        /\ resp.reachedStore
        /\ resp.req.ref \in issued
        /\ now <= persisted[resp.req.ref].deadline)
          => restores[resp.req.ref] >= 1
    /\ (/\ resp.handler = "callback"
        /\ resp.restored)
          => resp.state = persisted[resp.req.ref].state

C4_Witness ==
    /\ resp.handler = "callback"
    /\ resp.restored
    /\ resp.req.ref \in issued
    /\ now > 0

(***************************************************************************)
(* C5: every state in the store names a registered client, has a redirect  *)
(* URI matching one of that client's patterns, the client's grant type as  *)
(* response type, only valid scopes, and a registered IDP.                 *)
(***************************************************************************)
C5_PersistedStateValid ==
    \A st \in StoredStates :
        /\ st.ClientID \in DOMAIN clients
        /\ SomePatternMatches(st.RedirectURI, clients[st.ClientID].Redirects)
        /\ st.ResponseType = clients[st.ClientID].GrantType
        /\ \A i \in 1..Len(st.Scope) : st.Scope[i] \in validScopes
        /\ st.IDPID \in idps

C5_Witness ==
    \E st \in StoredStates :
        /\ Len(st.Scope) = 2
        /\ st.RedirectURI = <<"a", "w", "x">>
        /\ st.State = "state"

(***************************************************************************)
(* C6: a GET authorize request is answered with an OAuth error redirect    *)
(* only if its client_id names a registered client and a redirect URI was  *)
(* selected for it and parses, and the redirect goes to that URI; if the   *)
(* client_id is missing or unknown or no redirect URI is selected, the     *)
(* answer is a 400 with a text body and no Location.                       *)
(***************************************************************************)
C6_ErrorRedirectSplit ==
    AuthorizeAnswered =>
        LET q == resp.req
            r == resp.rsp
        IN  /\ IsErrorRedirect(r) =>
                 /\ ClientResolved(q)
                 /\ SelectedRedirect(q) # <<>>
                 /\ urlParseOK(SelectedRedirect(q))
                 /\ r.location.uri = SelectedRedirect(q)
            /\ (~ClientResolved(q) \/ SelectedRedirect(q) = <<>>) =>
                 /\ r.status = StatusBadRequest
                 /\ r.location = NoLocation
                 /\ r.body # ""

C6_Witness ==
    /\ AuthorizeAnswered
    /\ IsErrorRedirect(resp.rsp)
    /\ resp.rsp.location.error = "invalid_scope"
    /\ Len(resp.req.redirect_uri) = 0

(***************************************************************************)
(* C7: a supplied redirect_uri gets past the redirect check exactly when   *)
(* some registered pattern matches it: it equals the pattern, or for a     *)
(* pattern PREFIX* it starts with PREFIX; it then is the RedirectURI of    *)
(* the state.  A supplied URI that matches no pattern is never stored.     *)
(***************************************************************************)
Supplied(q) == Len(q.redirect_uri) > 0 /\ q.redirect_uri[1] # <<>>

Matched(q) ==
    SomePatternMatches(q.redirect_uri[1], clients[q.client_id[1]].Redirects)

C7_RedirectMatching ==
        /\ (AuthorizeAnswered /\ ClientResolved(resp.req)
               /\ Len(resp.req.redirect_uri) > 0) =>
              LET redirects == clients[resp.req.client_id[1]].Redirects IN
              \A i \in 1..Len(redirects) :
                 allowedMatches(resp.req.redirect_uri[1], redirects[i])
                    <=> PatternMatches(resp.req.redirect_uri[1], redirects[i])
        /\ (AuthorizeAnswered /\ ClientResolved(resp.req) /\ Supplied(resp.req)) =>
              /\ (resp.rsp = BadRedirectAnswer) <=> ~Matched(resp.req)
              /\ resp.rsp.location.kind = "error" =>
                    resp.rsp.location.uri = resp.req.redirect_uri[1]
        /\ (authorize.pc # "idle" /\ Supplied(authorize.req)) =>
              /\ Matched(authorize.req)
              /\ authorize.state.RedirectURI = authorize.req.redirect_uri[1]
        /\ \A k \in DOMAIN persisted :
              Supplied(persisted[k].req) =>
                 /\ Matched(persisted[k].req)
                 /\ persisted[k].state.RedirectURI = persisted[k].req.redirect_uri[1]
                 /\ gobDecode(values[k]).state.RedirectURI
                       = persisted[k].req.redirect_uri[1]

\* a wildcard pattern that is not the first registered one decides
C7_Witness ==
    /\ authorize.pc = "respond"
    /\ IsIdpRedirect(authorize.rsp)
    /\ Len(authorize.req.redirect_uri) > 0
    /\ LET u == authorize.req.redirect_uri[1]
           redirects == clients[authorize.req.client_id[1]].Redirects
       IN  /\ Len(redirects) = 2
           /\ ~PatternMatches(u, redirects[1])
           /\ PatternMatches(u, redirects[2])
           /\ redirects[2] # u

(***************************************************************************)
(* C8: a supplied redirect_uri that matches none of the client's patterns  *)
(* is answered 400 "missing or invalid redirect_uri", also for a client    *)
(* with exactly one registered redirect; the single registered redirect    *)
(* becomes the RedirectURI only when the parameter is absent.              *)
(***************************************************************************)
C8_NoDefaultForBadRedirect ==
    /\ (/\ AuthorizeAnswered
        /\ ClientResolved(resp.req)
        /\ Len(resp.req.redirect_uri) > 0
        /\ ~SomePatternMatches(resp.req.redirect_uri[1],
                               clients[resp.req.client_id[1]].Redirects))
          => resp.rsp = BadRedirectAnswer
    /\ authorize.pc # "idle" =>
          LET q == authorize.req
              redirects == clients[q.client_id[1]].Redirects
          IN  IF Len(q.redirect_uri) = 0
              THEN Len(redirects) = 1 /\ authorize.state.RedirectURI = redirects[1]
              ELSE authorize.state.RedirectURI = q.redirect_uri[1]

C8_Witness ==
    /\ AuthorizeAnswered
    /\ ClientResolved(resp.req)
    /\ Len(clients[resp.req.client_id[1]].Redirects) = 1
    /\ Len(resp.req.redirect_uri) > 0
    /\ resp.req.redirect_uri[1] # <<>>
    /\ resp.rsp = BadRedirectAnswer

C8_WitnessDefault ==
    /\ authorize.pc = "respond"
    /\ Len(authorize.req.redirect_uri) = 0
    /\ IsIdpRedirect(authorize.rsp)

(***************************************************************************)
(* Two goroutines serving callbacks while the authorize endpoint serves    *)
(* the requests that succeed.                                              *)
(***************************************************************************)
InitRace ==
    /\ InitKeeper
    /\ now = 0
    /\ clients = TestClients
    /\ inputs = {q \in EngineInputs :
                    /\ authorizationChecks(q, TestClients).ok
                    /\ Cardinality(scopeMapOf(q.scope)) <= 1}
    /\ idpUsers = {"user:1", NoUser}
    /\ values = << >>
    /\ expiries = << >>
    /\ usedRefs = {}
    /\ issued = {}
    /\ authorize = idleAuthorize
    /\ callback = [c \in Slots |-> idleCallback]
    /\ resp = noResponse
    /\ persisted = << >>
    /\ restores = [r \in Refs |-> 0]
    /\ tokens = [r \in Refs |-> 0]

SpecRace == InitRace /\ [][Next]_vars

InvalidStateToken == httpError("invalid state token", StatusBadRequest)
CallbackAnswered == resp.handler = "callback"

(***************************************************************************)
(* C1, as amended: for every reference at most one callback restores the   *)
(* state, so at most one callback produces an access-token redirect, and   *)
(* only a callback that restored the state produces one; every callback    *)
(* that reaches the state store and does not restore the state is          *)
(* answered 400 "invalid state token".                                     *)
(***************************************************************************)
C1_SingleRestore ==
    /\ \A r \in Refs : restores[r] <= 1 /\ tokens[r] <= restores[r]
    /\ (CallbackAnswered /\ IsTokenRedirect(resp.rsp)) => resp.restored
    /\ (CallbackAnswered /\ resp.reachedStore /\ ~resp.restored)
          => resp.rsp = InvalidStateToken

\* a callback has produced the token while another one with the same
\* reference is about to call restore
C1_Witness ==
    /\ CallbackAnswered
    /\ IsTokenRedirect(resp.rsp)
    /\ \E c \in DOMAIN callback :
          /\ callback[c].pc = "restore"
          /\ callback[c].req.ref = resp.req.ref
          /\ callback[c].req.user # NoUser

(***************************************************************************)
(* C1, as claimed: at most one callback produces an access-token redirect  *)
(* and every other callback that reaches the state store is answered 400   *)
(* "invalid state token".                                                  *)
(***************************************************************************)
C1_Original ==
    /\ \A r \in Refs : tokens[r] <= 1
    /\ (CallbackAnswered /\ resp.reachedStore /\ ~IsTokenRedirect(resp.rsp))
          => resp.rsp = InvalidStateToken

(***************************************************************************)
(* C9: on a successful callback the scopes of the token and of the         *)
(* fragment are the elements of the restored state.Scope the user is       *)
(* authorized for, in the order of state.Scope, without duplicates.        *)
(***************************************************************************)
\* the scopes the provider authorizes the user for
AuthorizedFor(u) == IF u \in DOMAIN userScopes THEN userScopes[u] ELSE {}

\* the elements of s that are in S, in the order of s
RECURSIVE Restrict(_, _)
Restrict(s, S) ==
    IF s = <<>> THEN <<>>
    ELSE IF Head(s) \in S THEN <<Head(s)>> \o Restrict(Tail(s), S)
    ELSE Restrict(Tail(s), S)

NoDuplicates(s) == \A i, j \in 1..Len(s) : i # j => s[i] # s[j]

C9_GrantedScopes ==
    (CallbackAnswered /\ IsTokenRedirect(resp.rsp)) =>
        LET granted == resp.rsp.location.scope IN
        /\ granted = Restrict(resp.state.Scope, AuthorizedFor(resp.req.user))
        /\ resp.rsp.location.access_token.scopes = granted
        /\ NoDuplicates(granted)
        /\ \A i \in 1..Len(granted) :
              /\ \E j \in 1..Len(resp.state.Scope) : resp.state.Scope[j] = granted[i]
              /\ granted[i] \in AuthorizedFor(resp.req.user)

C9_Witness ==
    /\ CallbackAnswered
    /\ IsTokenRedirect(resp.rsp)
    /\ Len(resp.state.Scope) = 3
    /\ Len(resp.rsp.location.scope) = 2
    /\ resp.req.user = "user:2"

(***************************************************************************)
(* C10: the granted scopes of the fragment are in the order in which the   *)
(* scopes were requested in the scope parameter of the authorize request.  *)
(***************************************************************************)
\* s without the repetitions of an element, first occurrences kept
RECURSIVE Dedup(_)
Dedup(s) ==
    IF s = <<>> THEN <<>>
    ELSE LET init == Dedup(SubSeq(s, 1, Len(s) - 1)) IN
         IF \E i \in 1..Len(init) : init[i] = s[Len(s)]
         THEN init ELSE Append(init, s[Len(s)])

RequestedScopes(q) == IF Len(q.scope) > 0 THEN Dedup(q.scope[1]) ELSE <<>>

C10_RequestOrderPreserved ==
    (CallbackAnswered /\ IsTokenRedirect(resp.rsp)) =>
        resp.rsp.location.scope
            = Restrict(RequestedScopes(persisted[resp.req.ref].req),
                       AuthorizedFor(resp.req.user))

(***************************************************************************)
(* C11: a Restore that reads the clock after the deadline of the last      *)
(* Persist of its key (the time of the Persist plus the lifetime) returns  *)
(* an error and the empty string, never the stored value.                  *)
(***************************************************************************)
C11_ExpiredRestoreFails ==
    (/\ RestoreReturned
     /\ ret.key \in DOMAIN entry
     /\ now > entry[ret.key].deadline)
       => /\ ret.err
          /\ ret.val = ""
          /\ ret.val # entry[ret.key].value

\* the key was never obtained: the Restore fails on the deadline alone
C11_Witness ==
    /\ keeper = "stateMap"
    /\ RestoreReturned
    /\ ret.err
    /\ ret.key \in DOMAIN entry
    /\ entry[ret.key].taken = 0
    /\ now = entry[ret.key].deadline + 1

(***************************************************************************)
(* C12: a Restore of the in-memory store that reads a clock equal to the   *)
(* deadline of the last Persist of its key returns an error.               *)
(***************************************************************************)
C12_RestoreAtDeadlineFails ==
    (/\ keeper = "stateMap"
     /\ RestoreReturned
     /\ ret.key \in DOMAIN entry
     /\ now = entry[ret.key].deadline)
       => ret.err

(***************************************************************************)
(* C13: a callback for which AuthnCallback returns no error and an empty   *)
(* reference is answered 400 "Can't relate callback to authorization       *)
(* request"; it does not get to the state store and gets no token, also    *)
(* when AuthnCallback returned a user.                                     *)
(***************************************************************************)
EmptyRefCallback(req) ==
    /\ req.method = "GET"
    /\ req.idp \in idps
    /\ ~req.err
    /\ req.ref = EmptyRef

C13_EmptyRefRejected ==
    /\ (CallbackAnswered /\ EmptyRefCallback(resp.req)) =>
          /\ resp.rsp.status = StatusBadRequest
          /\ resp.rsp.body = "Can't relate callback to authorization request"
          /\ resp.rsp.location = NoLocation
          /\ ~resp.reachedStore
          /\ ~resp.restored
    /\ \A c \in DOMAIN callback :
          callback[c].pc = "restore" => callback[c].req.ref # EmptyRef

\* the IDP returned a user, and a state waits in the store
C13_Witness ==
    /\ CallbackAnswered
    /\ EmptyRefCallback(resp.req)
    /\ resp.req.user \in Users
    /\ DOMAIN values # {}

(***************************************************************************)
(* C14: a callback that restored the state and for which the IDP returned  *)
(* no user is answered with the error redirect access_denied, "couldn't    *)
(* authenticate user", to the RedirectURI of the state persisted for its   *)
(* reference; it is not an access-token redirect.                          *)
(***************************************************************************)
C14_AccessDenied ==
    (CallbackAnswered /\ resp.restored /\ resp.req.user = NoUser) =>
        /\ resp.rsp.status = StatusSeeOther
        /\ resp.rsp.location.kind = "error"
        /\ resp.rsp.location.uri = persisted[resp.req.ref].state.RedirectURI
        /\ resp.rsp.location.error = "access_denied"
        /\ resp.rsp.location.error_description = <<"couldn't authenticate user">>
        /\ tokens[resp.req.ref] = 0

C14_Witness ==
    /\ CallbackAnswered
    /\ resp.restored
    /\ resp.req.user = NoUser
    /\ resp.rsp.location.kind = "error"
    /\ Len(resp.state.Scope) = 0

(***************************************************************************)
(* C15: a callback that restored the state and whose ScopeSetFor(user)     *)
(* fails is answered with the error redirect server_error to the           *)
(* RedirectURI of the restored state.                                      *)
(***************************************************************************)
ScopeLookupFailed ==
    /\ CallbackAnswered
    /\ resp.restored
    /\ resp.req.user \in Users
    /\ Len(resp.state.Scope) > 0
    /\ resp.req.user \notin DOMAIN userScopes

C15_ScopeLookupServerError ==
    ScopeLookupFailed =>
        /\ resp.rsp.status = StatusSeeOther
        /\ resp.rsp.location.kind = "error"
        /\ resp.rsp.location.error = "server_error"
        /\ resp.rsp.location.uri = resp.state.RedirectURI

(***************************************************************************)
(* C16: the answer to an authorize request with several invalid            *)
(* parameters is that of the first failing check in the order client_id,   *)
(* redirect_uri, response_type, scope, idp_id; a request that fails a      *)
(* check leaves nothing in the store, draws no reference and asks no IDP   *)
(* for a redirect.                                                         *)
(***************************************************************************)
ClientIdBad(q) == ~ClientResolved(q)
RedirectBad(q) == SelectedRedirect(q) = <<>>
ResponseTypeBad(q) ==
    \/ Len(q.response_type) = 0
    \/ q.response_type[1] # clients[q.client_id[1]].GrantType
ScopeBad(q) ==
    /\ Len(q.scope) > 0
    /\ \E i \in 1..Len(q.scope[1]) : q.scope[1][i] \notin validScopes
IdpBad(q) == Len(q.idp_id) = 0 \/ q.idp_id[1] \notin idps

\* the parameter the answer must be about: the first one in the order that
\* is invalid, "none" for a valid request
FirstBad(q) ==
    IF ClientIdBad(q) THEN "client_id"
    ELSE IF RedirectBad(q) THEN "redirect_uri"
    ELSE IF ResponseTypeBad(q) THEN "response_type"
    ELSE IF ScopeBad(q) THEN "scope"
    ELSE IF IdpBad(q) THEN "idp_id"
    ELSE "none"

\* the parameter an answer is about
AnswerAbout(r) ==
    IF r.location.kind = "error"
    THEN (CASE r.location.error = "unsupported_response_type" -> "response_type"
            [] r.location.error = "invalid_scope" -> "scope"
            [] r.location.error = "invalid_request" ->
                 (IF r.location.error_description = <<"response_type missing">>
                  THEN "response_type" ELSE "idp_id")
            [] OTHER -> "none")
    ELSE IF r.status = StatusBadRequest
    THEN (IF r.body \in {"missing client_id", "invalid client_id"}
          THEN "client_id" ELSE "redirect_uri")
    ELSE "none"

\* the number of invalid parameters of a request of a registered client
BadCount(q) ==
    Cardinality({p \in {"redirect_uri", "response_type", "scope", "idp_id"} :
                    \/ p = "redirect_uri" /\ RedirectBad(q)
                    \/ p = "response_type" /\ ResponseTypeBad(q)
                    \/ p = "scope" /\ ScopeBad(q)
                    \/ p = "idp_id" /\ IdpBad(q)})

C16_FirstFailingCheck ==
    /\ (/\ AuthorizeAnswered
        /\ (ClientResolved(resp.req) /\ ~RedirectBad(resp.req))
              => urlParseOK(SelectedRedirect(resp.req))
        /\ FirstBad(resp.req) # "none")
          => /\ AnswerAbout(resp.rsp) = FirstBad(resp.req)
             /\ values = << >>
             /\ expiries = << >>
             /\ usedRefs = {}
             /\ persisted = << >>
             /\ authorize.pc = "idle"
    /\ authorize.pc # "idle" => FirstBad(authorize.req) = "none"

\* response_type, scope and idp_id are all invalid
C16_Witness ==
    /\ AuthorizeAnswered
    /\ ClientResolved(resp.req)
    /\ ~RedirectBad(resp.req)
    /\ ResponseTypeBad(resp.req)
    /\ ScopeBad(resp.req)
    /\ IdpBad(resp.req)
    /\ AnswerAbout(resp.rsp) = "response_type"

\* scope and idp_id are invalid
C16_WitnessScope ==
    /\ AuthorizeAnswered
    /\ FirstBad(resp.req) = "scope"
    /\ IdpBad(resp.req)
    /\ AnswerAbout(resp.rsp) = "scope"

(***************************************************************************)
(* C17: when the scope parameter holds a scope the provider rejects, the   *)
(* answer is the error redirect invalid_scope, "invalid scope: <s>", s     *)
(* being the first rejected scope in the order of the parameter; otherwise *)
(* the persisted state.Scope holds each requested scope exactly once.      *)
(***************************************************************************)
ScopeSetOf(sq) == {sq[i] : i \in 1..Len(sq)}

C17_InvalidScopeOrCoalesced ==
    /\ (/\ AuthorizeAnswered
        /\ FirstBad(resp.req) = "scope"
        /\ urlParseOK(SelectedRedirect(resp.req)))
          => \E i \in 1..Len(resp.req.scope[1]) :
                /\ resp.req.scope[1][i] \notin validScopes
                /\ \A j \in 1..(i - 1) : resp.req.scope[1][j] \in validScopes
                /\ resp.rsp.status = StatusSeeOther
                /\ resp.rsp.location.kind = "error"
                /\ resp.rsp.location.uri = SelectedRedirect(resp.req)
                /\ resp.rsp.location.error = "invalid_scope"
                /\ resp.rsp.location.error_description
                      = <<"invalid scope: ", resp.req.scope[1][i]>>
    /\ \A k \in DOMAIN persisted :
          LET st == persisted[k].state
              q == persisted[k].req
          IN  /\ NoDuplicates(st.Scope)
              /\ ScopeSetOf(st.Scope)
                    = (IF Len(q.scope) > 0 THEN ScopeSetOf(q.scope[1]) ELSE {})
              /\ ScopeSetOf(st.Scope) \subseteq validScopes
              /\ k \in DOMAIN values
              /\ gobDecode(values[k]).state.Scope = st.Scope

\* two rejected scopes: the first one is named
C17_Witness ==
    /\ AuthorizeAnswered
    /\ resp.rsp.location.kind = "error"
    /\ resp.rsp.location.error = "invalid_scope"
    /\ Len(resp.req.scope[1]) = 2
    /\ resp.req.scope[1][1] = "thisisnoscope"
    /\ resp.req.scope[1][2] = ""

\* a scope requested twice is persisted once
C17_WitnessCoalesced ==
    \E k \in DOMAIN persisted :
        /\ Len(persisted[k].req.scope) > 0
        /\ Len(persisted[k].req.scope[1]) = 2
        /\ Len(persisted[k].state.Scope) = 1

(***************************************************************************)
(* C18: when authnSession fails to persist the state, the authorize        *)
(* request is answered with the error redirect server_error, "internal     *)
(* server error", to the redirect URI selected for the client; the 303 to  *)
(* the IDP is written only when the state has been persisted.              *)
(***************************************************************************)
ServerErrorAnswer(r, uri) ==
    /\ r.status = StatusSeeOther
    /\ r.location.kind = "error"
    /\ r.location.uri = uri
    /\ r.location.error = "server_error"
    /\ r.location.error_description = <<"internal server error">>

C18_PersistFailure ==
    /\ authorize.pc = "respond" =>
          IF authorize.ref \in DOMAIN persisted
          THEN /\ IsIdpRedirect(authorize.rsp)
               /\ authorize.rsp.location.ref = authorize.ref
               /\ authorize.ref \in DOMAIN values
          ELSE /\ ServerErrorAnswer(authorize.rsp, authorize.state.RedirectURI)
               /\ authorize.state.RedirectURI = SelectedRedirect(authorize.req)
               /\ authorize.ref \notin DOMAIN values
    /\ (resp.handler = "authorize" /\ IsIdpRedirect(resp.rsp)) =>
          /\ resp.rsp.location.ref \in DOMAIN persisted
          /\ resp.rsp.location.ref \in DOMAIN values
    /\ (AuthorizeAnswered /\ resp.rsp.location.kind = "error"
           /\ resp.rsp.location.error = "server_error") =>
          /\ ServerErrorAnswer(resp.rsp, SelectedRedirect(resp.req))
          /\ \A k \in usedRefs : k \notin DOMAIN values

\* the request was valid, a reference was drawn, nothing is stored
C18_Witness ==
    /\ AuthorizeAnswered
    /\ resp.rsp.location.kind = "error"
    /\ resp.rsp.location.error = "server_error"
    /\ FirstBad(resp.req) = "none"
    /\ usedRefs # {}
    /\ values = << >>

C19_WitnessEmptyState ==
    /\ CallbackAnswered
    /\ IsTokenRedirect(resp.rsp)
    /\ persisted[resp.req.ref].req.state = <<"">>
    /\ resp.rsp.location.state = << >>

(***************************************************************************)
(* C20: the access token of a successful callback has the UID of the user  *)
(* the IDP returned as sub, nbf = iat - 10, exp = iat + the configured     *)
(* lifetime, and the expires_in of the fragment is exp - iat.              *)
(***************************************************************************)
C20_TokenTimes ==
    (CallbackAnswered /\ IsTokenRedirect(resp.rsp)) =>
        LET tok == resp.rsp.location.access_token IN
        /\ tok.sub = resp.req.user
        /\ tok.sub \in Users
        /\ tok.iat = now
        /\ tok.nbf = tok.iat - 10
        /\ tok.exp = tok.iat + Lifetime
        /\ resp.rsp.location.expires_in = tok.exp - tok.iat

C20_Witness ==
    /\ CallbackAnswered
    /\ IsTokenRedirect(resp.rsp)
    /\ resp.req.user = "user:2"
    /\ resp.rsp.location.access_token.iat = 2

(***************************************************************************)
(* C21: a GET on the callback path whose last segment is not the id of a   *)
(* registered IDP is answered 400 with no Location; the request does not   *)
(* get to the state store and no state is restored.                        *)
(***************************************************************************)
UnknownIdpCallback(req) == req.method = "GET" /\ req.idp \notin idps

JWK(kty, ops, kid, crv, alg) ==
    [kty |-> kty, key_ops |-> ops, kid |-> kid, crv |-> crv, alg |-> alg,
     x |-> IF kty = "EC" THEN <<"x", kid, crv>> ELSE <<>>,
     y |-> IF kty = "EC" THEN <<"y", kid, crv>> ELSE <<>>,
     d |-> IF kty = "EC" THEN <<"d", kid, crv>> ELSE <<>>,
     k |-> IF kty = "oct" THEN <<"k", kid, alg>> ELSE <<>>]

\* the point a private scalar generates
publicOf(d) == [x |-> <<"x", d[2], d[3]>>, y |-> <<"y", d[2], d[3]>>]

emptyJWKSet == [signers |-> << >>, verifiers |-> << >>, kids |-> << >>]
noJWK == [type |-> "none"]

\* jwkECPub.setParams
setParams(crv) ==
    CASE crv = "P-256" -> [err |-> "", AlgName |-> "ES256", SigLength |-> 64]
      [] crv = "P-384" -> [err |-> "", AlgName |-> "ES384", SigLength |-> 96]
      [] crv = "P-521" -> [err |-> "", AlgName |-> "ES512", SigLength |-> 132]
      [] OTHER -> [err |-> "Unsupported EC curve", AlgName |-> "", SigLength |-> 0]

\* unmarshalJWKECPub: the struct has no member for d
unmarshalJWKECPub(key) ==
    LET p == setParams(key.crv)
    IN  IF p.err # "" THEN [err |-> p.err, jwk |-> noJWK]
        ELSE [err |-> "",
              jwk |-> [type |-> "jwkECPub", kty |-> key.kty,
                       key_ops |-> key.key_ops, kid |-> key.kid,
                       crv |-> key.crv, x |-> key.x, y |-> key.y,
                       AlgName |-> p.AlgName, SigLength |-> p.SigLength,
                       PublicKey |-> [x |-> key.x, y |-> key.y]]]

\* unmarshalJWKECPriv
unmarshalJWKECPriv(key) ==
    LET p == setParams(key.crv)
    IN  IF p.err # "" THEN [err |-> p.err, jwk |-> noJWK]
        ELSE [err |-> "",
              jwk |-> [type |-> "jwkECPriv", kty |-> key.kty,
                       key_ops |-> key.key_ops, kid |-> key.kid,
                       crv |-> key.crv, x |-> key.x, y |-> key.y, d |-> key.d,
                       AlgName |-> p.AlgName, SigLength |-> p.SigLength,
                       PublicKey |-> [x |-> key.x, y |-> key.y],
                       PrivateKey |-> key.d]]

\* the digest size of the hash of an HMAC algorithm
hashSize(alg) ==
    CASE alg = "HS256" -> 32
      [] alg = "HS384" -> 48
      [] alg = "HS512" -> 64
      [] OTHER -> 0

\* unmarshalJWKSymmetric
unmarshalJWKSymmetric(key) ==
    IF key.alg \notin {"HS256", "HS384", "HS512"}
    THEN [err |-> "Invalid Alg for symmetric key", jwk |-> noJWK]
    ELSE [err |-> "",
          jwk |-> [type |-> "jwkSymmetric", kty |-> key.kty,
                   key_ops |-> key.key_ops, kid |-> key.kid,
                   alg |-> key.alg, k |-> key.k, Key |-> key.k]]

\* Algorithm(), of either kind of key
Algorithm(jwk) == IF jwk.type = "jwkSymmetric" THEN jwk.alg ELSE jwk.AlgName

put(table, kid, jwk) == (kid :> jwk) @@ table

\* the loop over the key_ops of an EC key
RECURSIVE loadKeyOpsEC(_, _, _)
loadKeyOpsEC(key, ops, set) ==
    IF ops = <<>> THEN [err |-> "", set |-> set]
    ELSE IF Head(ops) = "sign"
    THEN LET r == unmarshalJWKECPriv(key)
         IN  IF r.err # "" THEN [err |-> r.err, set |-> emptyJWKSet]
             ELSE loadKeyOpsEC(key, Tail(ops),
                      [set EXCEPT !.signers = put(@, r.jwk.kid, r.jwk)])
    ELSE IF Head(ops) = "verify"
    THEN LET r == unmarshalJWKECPub(key)
         IN  IF r.err # "" THEN [err |-> r.err, set |-> emptyJWKSet]
             ELSE loadKeyOpsEC(key, Tail(ops),
                      [set EXCEPT !.verifiers = put(@, r.jwk.kid, r.jwk)])
    ELSE [err |-> "Unsupported key operation", set |-> emptyJWKSet]

\* the loop over the key_ops of a symmetric key
RECURSIVE loadKeyOpsOct(_, _, _)
loadKeyOpsOct(jwk, ops, set) ==
    IF ops = <<>> THEN [err |-> "", set |-> set]
    ELSE IF Head(ops) = "sign"
    THEN loadKeyOpsOct(jwk, Tail(ops),
             [set EXCEPT !.signers = put(@, jwk.kid, jwk)])
    ELSE IF Head(ops) = "verify"
    THEN loadKeyOpsOct(jwk, Tail(ops),
             [set EXCEPT !.verifiers = put(@, jwk.kid, jwk)])
    ELSE loadKeyOpsOct(jwk, Tail(ops), set)

\* the duplicate check that never finds one
knownKidNever(kids, kid) == FALSE

\* the loop that compares the key id with those of the keys before it
knownKid(kids, kid) == \E i \in 1..Len(kids) : kids[i] = kid

\* the body of the loop over the keys of the document
loadKey(key, set) ==
    IF Len(key.key_ops) = 0
    THEN [err |-> "key has no key_ops", set |-> emptyJWKSet]
    ELSE IF knownKid(set.kids, key.kid)
    THEN [err |-> "Duplicate key ID in JKWSet", set |-> emptyJWKSet]
    ELSE LET added == [set EXCEPT !.kids = Append(@, key.kid)]
         IN  IF key.kty = "EC"
             THEN loadKeyOpsEC(key, key.key_ops, added)
             ELSE IF key.kty = "oct"
             THEN LET r == unmarshalJWKSymmetric(key)
                  IN  IF r.err # "" THEN [err |-> r.err, set |-> emptyJWKSet]
                      ELSE loadKeyOpsOct(r.jwk, key.key_ops, added)
             ELSE [err |-> "Can't use key", set |-> emptyJWKSet]

RECURSIVE loadKeys(_, _)
loadKeys(keys, set) ==
    IF keys = <<>> THEN [err |-> "", set |-> set]
    ELSE LET r == loadKey(Head(keys), set)
         IN  IF r.err # "" THEN r ELSE loadKeys(Tail(keys), r.set)

\* LoadJWKSet(data): data is a document that json.Unmarshal accepts or not
LoadJWKSet(data) ==
    IF ~data.json
    THEN [err |-> "invalid JSON", set |-> emptyJWKSet]
    ELSE loadKeys(data.keys, emptyJWKSet)

\* JWKSet.KeyIDs
KeyIDs(set) == set.kids

\* json.Marshal of a key: the members its struct tags name (the fields
\* tagged "-" are left out)
marshalJWK(jwk) ==
    [n \in {"kty", "key_ops", "kid", "crv", "x", "y", "d", "alg", "k"}
            \cap DOMAIN jwk |-> jwk[n]]

\* JWKSet.VerifiersJSON that skips no verifier
VerifiersJSONAll(set) ==
    {marshalJWK(set.verifiers[kid]) : kid \in DOMAIN set.verifiers}

\* JWKSet.VerifiersJSON: the keys of the JWKS it returns, in the order of a
\* map iteration; Algorithm()[:2] is "ES" for the three EC algorithms
VerifiersJSON(set) ==
    {marshalJWK(set.verifiers[kid]) :
        kid \in {k \in DOMAIN set.verifiers :
                    Algorithm(set.verifiers[k]) \in {"ES256", "ES384", "ES512"}}}

(***************************************************************************)
(* Texts.  A base64url text is its decoded bytes, their number, the value  *)
(* of the bits the last character carries beyond the bytes (4 bits when    *)
(* one byte is left over, 2 when two are), and whether every character is  *)
(* of the alphabet.  A JSON text is the value it denotes, or no value.     *)
(***************************************************************************)
padBits(n) == IF n % 3 = 1 THEN 4 ELSE IF n % 3 = 2 THEN 2 ELSE 0

\* base64.RawURLEncoding.EncodeToString
b64Encode(bytes, n) == [bytes |-> bytes, len |-> n, tail |-> 0, legal |-> TRUE]

\* base64.RawURLEncoding.Decode and DecodeString: the encoding is not
\* Strict(), so the bits beyond the bytes are not looked at
b64Decode(text) == [err |-> ~text.legal, bytes |-> text.bytes, len |-> text.len]

\* the length of the strings that end up in a JWT header
strLen(s) ==
    IF s \in {"ES256", "ES384", "ES512", "HS256", "HS384", "HS512"} THEN 5
    ELSE IF s = "" THEN 0 ELSE 1

\* json.Marshal of a header, {"alg":"...","kid":"..."}, and its length
headerJSON(alg, kid) ==
    [valid |-> TRUE, alg |-> alg, kid |-> kid, len |-> 19 + strLen(alg) + strLen(kid)]

\* a Go slice: nil or not, and its elements
goSlice(isNil, elems) == [isNil |-> isNil, elems |-> elems]

\* the payloads of the package's tests: a TestToken and its zero value
TestToken(s, i, l) == [Stringvalue |-> s, Intvalue |-> i, Listvalue |-> l]
zeroTestToken == TestToken(<<>>, 0, goSlice(TRUE, <<>>))
Payloads ==
    { TestToken(<<"t", "e", "s", "t">>, 1, goSlice(FALSE, <<0, 1>>)),
      TestToken(<<>>, 0, goSlice(FALSE, <<>>)),
      zeroTestToken }

\* json.Marshal of a TestToken: a nil slice is written as null; the numbers
\* of the payloads have one digit
jsonMarshal(v) ==
    [valid |-> TRUE,
     members |-> [Stringvalue |-> v.Stringvalue, Intvalue |-> v.Intvalue,
                  Listvalue |-> [null |-> v.Listvalue.isNil,
                                 items |-> v.Listvalue.elems]],
     len |-> 16 + Len(v.Stringvalue) + 13 + 1 + 13
                + (IF v.Listvalue.isNil THEN 4
                   ELSE IF Len(v.Listvalue.elems) = 0 THEN 2
                   ELSE 1 + 2 * Len(v.Listvalue.elems))
                + 1]

\* json.Unmarshal that turns null into an empty slice
jsonUnmarshalNoNull(text, sink) ==
    IF ~text.valid THEN [err |-> TRUE, v |-> sink]
    ELSE [err |-> FALSE,
          v |-> TestToken(text.members.Stringvalue, text.members.Intvalue,
                          goSlice(FALSE, text.members.Listvalue.items))]

\* json.Unmarshal into a TestToken: null leaves the slice of the sink alone
jsonUnmarshal(text, sink) ==
    IF ~text.valid THEN [err |-> TRUE, v |-> sink]
    ELSE [err |-> FALSE,
          v |-> TestToken(text.members.Stringvalue, text.members.Intvalue,
                          IF text.members.Listvalue.null THEN sink.Listvalue
                          ELSE goSlice(FALSE, text.members.Listvalue.items))]

(***************************************************************************)
(* Signing and verifying.                                                  *)
(***************************************************************************)
\* big.Int.Bytes(): the big-endian bytes without leading zeros; the scalars
\* ecdsa.Sign can return have between one byte and the half-length
scalarBytes(n) == [i \in 1..n |-> 255]

\* the fixed-length array left as Bytes() gives it
leftPadNone(b, l) == b

\* make([]byte, l, l) and copy(fixed[l-len(b):], b)
leftPad(b, l) == [i \in 1..l |-> IF i > l - Len(b) THEN b[i - (l - Len(b))] ELSE 0]

\* a digest: its bytes, and the key and message it is valid for
digestOf(octets, by, msg) ==
    [octets |-> octets, signs |-> [valid |-> TRUE, by |-> by, msg |-> msg]]

\* jwkECPriv.Sign, for the scalars r and s that ecdsa.Sign returned
jwkECPrivSign(jwk, msg, rBytes, sBytes) ==
    LET l == jwk.SigLength \div 2
    IN  digestOf(leftPad(rBytes, l) \o leftPad(sBytes, l), jwk.PrivateKey, msg)

\* jwkSymmetric.Sign
jwkSymmetricSign(jwk, msg) ==
    digestOf(scalarBytes(hashSize(jwk.alg)), jwk.Key, msg)

\* signer.Sign
Sign(jwk, msg, rBytes, sBytes) ==
    IF jwk.type = "jwkSymmetric" THEN jwkSymmetricSign(jwk, msg)
    ELSE jwkECPrivSign(jwk, msg, rBytes, sBytes)

\* ecdsa.Verify: the numbers are a signature of the message by the scalar
\* of this point
ecdsaVerify(pub, msg, digest) ==
    /\ digest.signs.valid
    /\ digest.signs.msg = msg
    /\ digest.signs.by[1] = "d"
    /\ publicOf(digest.signs.by) = pub

\* jwkECPub.Verify
jwkECPubVerify(jwk, b64header, b64payload, b64digest) ==
    LET decoded == b64Decode(b64digest)
    IN  IF decoded.err \/ decoded.len # jwk.SigLength THEN FALSE
        ELSE ecdsaVerify(jwk.PublicKey, <<b64header, b64payload>>, decoded.bytes)

\* jwkSymmetric.Verify: the digest is computed again and its text compared
jwkSymmetricVerify(jwk, b64header, b64payload, b64digest) ==
    LET digest == jwkSymmetricSign(jwk, <<b64header, b64payload>>)
    IN  b64Encode(digest, Len(digest.octets)) = b64digest

\* verifier.Verify
Verify(jwk, b64header, b64payload, b64digest) ==
    IF jwk.type = "jwkSymmetric"
    THEN jwkSymmetricVerify(jwk, b64header, b64payload, b64digest)
    ELSE jwkECPubVerify(jwk, b64header, b64payload, b64digest)

noToken == <<>>

\* JWKSet.Encode; a token is the parts that the dots separate
Encode(set, kid, v, rBytes, sBytes) ==
    IF kid \notin DOMAIN set.signers
    THEN [err |-> "Cannot use kid to encode", token |-> noToken]
    ELSE LET signer == set.signers[kid]
             headerText == headerJSON(Algorithm(signer), kid)
             payloadText == jsonMarshal(v)
             b64header == b64Encode(headerText, headerText.len)
             b64payload == b64Encode(payloadText, payloadText.len)
             digest == Sign(signer, <<b64header, b64payload>>, rBytes, sBytes)
         IN  [err |-> "",
              token |-> <<b64header, b64payload,
                          b64Encode(digest, Len(digest.octets))>>]

\* JWKSet.Decode into a zero TestToken
Decode(set, data) ==
    LET fail(e) == [err |-> e, v |-> zeroTestToken]
    IN  IF Len(data) # 3 THEN fail("JWT shoud have 3 parts")
        ELSE LET rawHeader == b64Decode(data[1])
             IN  IF rawHeader.err THEN fail("illegal base64 data in header")
                 ELSE IF ~rawHeader.bytes.valid THEN fail("invalid JSON in header")
                 ELSE IF rawHeader.bytes.kid \notin DOMAIN set.verifiers
                 THEN fail("No key with ID available in keyset for verification")
                 ELSE IF ~Verify(set.verifiers[rawHeader.bytes.kid],
                                 data[1], data[2], data[3])
                 THEN fail("Couldn't verify JWT")
                 ELSE LET rawPayload == b64Decode(data[2])
                      IN  IF rawPayload.err
                          THEN fail("illegal base64 data in payload")
                          ELSE LET r == jsonUnmarshal(rawPayload.bytes, zeroTestToken)
                               IN  IF r.err THEN fail("invalid JSON in payload")
                                   ELSE [err |-> "", v |-> r.v]

(***************************************************************************)
(* The package at work: a JWKS document is loaded, directly or by          *)
(* Handler(); the set signs a payload, publishes its verifiers, and        *)
(* decodes the token, as signed or with one bit of one part changed.       *)
(***************************************************************************)
\* the keys a document can hold
KeyShapes ==
    {[kty |-> "EC", crv |-> c, alg |-> ""] : c \in {"P-256", "P-384", "P-521", "P-192"}}
    \cup {[kty |-> "oct", crv |-> "", alg |-> a] : a \in {"HS256", "none"}}
    \cup {[kty |-> "RSA", crv |-> "", alg |-> "RS256"]}
KeyOpsLists ==
    {<<>>, <<"sign">>, <<"verify">>, <<"sign", "verify">>, <<"encrypt">>,
     <<"sign", "encrypt">>}
Kids == {"1", "2"}
NoKid == "3"
JWKs == {JWK(sh.kty, ops, kid, sh.crv, sh.alg) :
            sh \in KeyShapes, ops \in KeyOpsLists, kid \in Kids}

\* the documents: one that is not JSON, and those of up to two keys
JWKSDocument(keys) == [json |-> TRUE, keys |-> keys]
JWKSDocuments ==
    {[json |-> FALSE, keys |-> <<>>], JWKSDocument(<<>>)}
    \cup {JWKSDocument(<<k>>) : k \in JWKs}
    \cup {JWKSDocument(<<k, l>>) : k \in JWKs, l \in JWKs}

\* the lengths Bytes() can have for the scalars of one signature: both of
\* the half-length, or one of them or both shorter
ScalarLengths(jwk) ==
    IF jwk.type = "jwkSymmetric" THEN {<<0, 0>>}
    ELSE LET l == jwk.SigLength \div 2
         IN  {<<l, l>>, <<1, l>>, <<l - 1, 1>>}

\* what one changed bit makes of the bytes of a part
byteFlips(part, bytes) ==
    CASE part = 1 ->
            {[bytes EXCEPT !.valid = FALSE], [bytes EXCEPT !.alg = "none"]}
            \cup {[bytes EXCEPT !.kid = k] : k \in (Kids \cup {NoKid}) \ {bytes.kid}}
      [] part = 2 -> {[bytes EXCEPT !.valid = FALSE]}
      [] OTHER -> {[bytes EXCEPT !.signs.valid = FALSE,
                                 !.octets[1] = (@ + 1) % 256]}

\* what one changed bit makes of a part: a character off the alphabet,
\* other bytes, or the same bytes with other bits beyond them
flips(part, text) ==
    {[text EXCEPT !.legal = FALSE]}
    \cup {[text EXCEPT !.bytes = b] : b \in byteFlips(part, text.bytes)}
    \cup (IF padBits(text.len) > 0 THEN {[text EXCEPT !.tail = 1]} ELSE {})

joseFrame ==
    UNCHANGED <<engineVars, keeper, mutex, threads, redis, entry, codec, authz, ret>>

\* LoadJWKSet(data)
LoadJWKSetCall ==
    /\ jose.pc = "document"
    /\ LET r == LoadJWKSet(jose.data)
       IN  jose' = [pc |-> "loaded", data |-> jose.data, err |-> r.err, set |-> r.set]
    /\ joseFrame

\* jwks.KeyIDs() and jwks.VerifiersJSON()
VerifiersJSONCall ==
    /\ jose.pc = "loaded"
    /\ jose.err = ""
    /\ jose' = [pc |-> "published", data |-> jose.data, set |-> jose.set,
                kids |-> KeyIDs(jose.set), keys |-> VerifiersJSON(jose.set)]
    /\ joseFrame

\* jwks.Encode(kid, v)
EncodeCall ==
    /\ jose.pc = "loaded"
    /\ jose.err = ""
    /\ \E kid \in Kids \cup {NoKid}, v \in Payloads :
          \E n \in (IF kid \in DOMAIN jose.set.signers
                    THEN ScalarLengths(jose.set.signers[kid]) ELSE {<<0, 0>>}) :
             LET r == Encode(jose.set, kid, v, scalarBytes(n[1]), scalarBytes(n[2]))
             IN  jose' = [pc |-> "encoded", data |-> jose.data, set |-> jose.set,
                          kid |-> kid, v |-> v, rLen |-> n[1], sLen |-> n[2],
                          err |-> r.err, token |-> r.token, changed |-> 0]
    /\ joseFrame

\* one bit of one part of the token changes on its way
Tamper ==
    /\ jose.pc = "encoded"
    /\ jose.err = ""
    /\ jose.changed = 0
    /\ \E part \in 1..3 :
          \E text \in flips(part, jose.token[part]) :
             jose' = [jose EXCEPT !.token[part] = text, !.changed = part]
    /\ joseFrame

\* jwks.Decode(token, &decoded)
DecodeCall ==
    /\ jose.pc = "encoded"
    /\ jose.err = ""
    /\ LET r == Decode(jose.set, jose.token)
       IN  jose' = [pc |-> "decoded", data |-> jose.data, set |-> jose.set,
                    kid |-> jose.kid, v |-> jose.v, token |-> jose.token,
                    changed |-> jose.changed, err |-> r.err, decoded |-> r.v]
    /\ joseFrame

\* newAccessTokenEncoder
newAccessTokenEncoder(set) ==
    LET kids == KeyIDs(set)
    IN  IF Len(kids) < 1
        THEN [err |-> "JWK set must contain at least one key", KeyID |-> ""]
        ELSE [err |-> "", KeyID |-> kids[1]]

\* the options of Handler() that concern the key: none, or JWKID(kid)
NoOption == ""
JWKID(enc, kid) == [enc EXCEPT !.KeyID = kid]

\* Handler(baseURL, jwks, options...): log.Fatal on a document that does not
\* load, an error from newAccessTokenEncoder, or a handler with its encoder
Handler(data, option) ==
    LET loaded == LoadJWKSet(data)
        ate == newAccessTokenEncoder(loaded.set)
    IN  IF loaded.err # ""
        THEN [result |-> "fatal", set |-> emptyJWKSet, KeyID |-> ""]
        ELSE IF ate.err # ""
        THEN [result |-> "error", set |-> loaded.set, KeyID |-> ""]
        ELSE [result |-> "ok", set |-> loaded.set,
              KeyID |-> IF option = NoOption THEN ate.KeyID
                        ELSE JWKID(ate, option).KeyID]

HandlerCall ==
    /\ jose.pc = "document"
    /\ \E option \in {NoOption} \cup Kids \cup {NoKid} :
          LET h == Handler(jose.data, option)
          IN  jose' = [pc |-> "handler", data |-> jose.data, result |-> h.result,
                       set |-> h.set, KeyID |-> h.KeyID,
                       option |-> IF h.result = "ok" THEN option ELSE NoOption]
    /\ joseFrame

\* accessTokenEncoder.Encode, as serveIDPCallback calls it: whether
\* jwks.Encode fails does not depend on the payload
AccessTokenEncode ==
    /\ jose.pc = "handler"
    /\ jose.result = "ok"
    /\ \E n \in (IF jose.KeyID \in DOMAIN jose.set.signers
                 THEN ScalarLengths(jose.set.signers[jose.KeyID]) ELSE {<<0, 0>>}) :
          LET r == Encode(jose.set, jose.KeyID, zeroTestToken,
                          scalarBytes(n[1]), scalarBytes(n[2]))
          IN  jose' = [pc |-> "issued", data |-> jose.data, set |-> jose.set,
                       KeyID |-> jose.KeyID, option |-> jose.option,
                       err |-> r.err, token |-> r.token]
    /\ joseFrame

InitJose ==
    /\ jose \in {[pc |-> "document", data |-> d] : d \in JWKSDocuments}
    /\ codec = idleCodec
    /\ authz = idleAuthz
    /\ keeper = "stateMap"
    /\ mutex = "free"
    /\ threads = << >>
    /\ redis = << >>
    /\ entry = << >>
    /\ ret = noReturn
    /\ now = 0
    /\ idpUsers = {}
    /\ clients = << >>
    /\ inputs = {}
    /\ values = << >>
    /\ expiries = << >>
    /\ usedRefs = {}
    /\ issued = {}
    /\ authorize = idleAuthorize
    /\ callback = << >>
    /\ resp = noResponse
    /\ persisted = << >>
    /\ restores = [r \in Refs |-> 0]
    /\ tokens = [r \in Refs |-> 0]

NextJose ==
    \/ LoadJWKSetCall
    \/ VerifiersJSONCall
    \/ EncodeCall
    \/ Tamper
    \/ DecodeCall
    \/ HandlerCall
    \/ AccessTokenEncode

SpecJose == InitJose /\ [][NextJose]_vars


(***************************************************************************)
(* Claims about the jose package.                                          *)
(***************************************************************************)
\* Decode has answered for a token exactly as Encode produced it
DecodedUntouched == jose.pc = "decoded" /\ jose.changed = 0

\* C22, as stated: for every key with which Encode(kid, payload) succeeds,
\* Decode of the produced token against the same key set succeeds and
\* yields a payload equal to the encoded one.
C22_Original ==
    DecodedUntouched => (jose.err = "" /\ jose.decoded = jose.v)

\* C22: for every key that is in the signer table and in the verifier
\* table of a loaded JWKS, Decode of the token Encode(kid, payload)
\* produced succeeds and yields a payload equal to the encoded one; for a
\* key that is in the signer table only, Decode fails because the kid of
\* the header hits no verifier.
C22_RoundTrip ==
    DecodedUntouched =>
        IF jose.kid \in DOMAIN jose.set.verifiers
        THEN jose.err = "" /\ jose.decoded = jose.v
        ELSE /\ jose.err = "No key with ID available in keyset for verification"
             /\ jose.decoded = zeroTestToken

C22_Witness ==
    /\ DecodedUntouched
    /\ jose.kid \in DOMAIN jose.set.verifiers
    /\ jose.set.signers[jose.kid].type = "jwkECPriv"
    /\ jose.v = zeroTestToken
    /\ jose.decoded = jose.v

C22_WitnessSignOnly ==
    /\ DecodedUntouched
    /\ jose.kid \notin DOMAIN jose.set.verifiers
    /\ jose.err # ""

\* LoadJWKSet has returned a key set
Loaded == jose.pc = "loaded" /\ jose.err = ""
DocumentKeys == {jose.data.keys[i] : i \in 1..Len(jose.data.keys)}
HasOp(key, op) == \E i \in 1..Len(key.key_ops) : key.key_ops[i] = op

\* C23, as stated: after a successful LoadJWKSet every key of the document
\* is in the signer table iff its key_ops contains 'sign' and in the
\* verifier table iff its key_ops contains 'verify', so every loaded key
\* is in at least one table; Encode(kid) succeeds only for keys in the
\* signer table and fails for any other kid.
C23_KeyTables ==
    /\ Loaded =>
          \A key \in DocumentKeys :
             /\ key.kid \in DOMAIN jose.set.signers <=> HasOp(key, "sign")
             /\ key.kid \in DOMAIN jose.set.verifiers <=> HasOp(key, "verify")
             /\ key.kid \in DOMAIN jose.set.signers \cup DOMAIN jose.set.verifiers
    /\ jose.pc = "encoded" =>
          (jose.err = "" <=> jose.kid \in DOMAIN jose.set.signers)

\* C24, as stated: LoadJWKSet fails when any key declares a key_ops entry
\* other than 'sign' or 'verify', for EC keys and for symmetric keys
\* alike, and when any key has no key_ops at all.
C24_KeyOpsRejected ==
    jose.pc = "loaded" =>
       \A key \in DocumentKeys :
          \/ Len(key.key_ops) = 0
          \/ \E i \in 1..Len(key.key_ops) : key.key_ops[i] \notin {"sign", "verify"}
          => jose.err # ""

\* C25, as stated: once Handler construction has succeeded, the key id the
\* access-token encoder signs with names a signer key of the loaded set,
\* so that the encoder's Encode does not fail for want of a signer.
C25_EncoderKeySigns ==
    /\ (jose.pc = "handler" /\ jose.result = "ok") =>
          jose.KeyID \in DOMAIN jose.set.signers
    /\ jose.pc = "issued" => jose.err = ""

\* C26: after a successful LoadJWKSet the key ids are pairwise distinct and
\* KeyIDs() returns them in the order the keys appear in the document; a
\* document in which two keys share a kid is rejected.
C26_KeyIDs ==
    /\ Loaded =>
          /\ NoDuplicates(KeyIDs(jose.set))
          /\ KeyIDs(jose.set) = [i \in 1..Len(jose.data.keys) |-> jose.data.keys[i].kid]
    /\ jose.pc = "published" =>
          jose.kids = [i \in 1..Len(jose.data.keys) |-> jose.data.keys[i].kid]
    /\ jose.pc = "loaded" =>
          ((\E i, j \in 1..Len(jose.data.keys) :
               i # j /\ jose.data.keys[i].kid = jose.data.keys[j].kid)
           => jose.err # "")

C26_Witness ==
    /\ Loaded
    /\ KeyIDs(jose.set) = <<"2", "1">>

C26_WitnessDuplicate ==
    /\ jose.pc = "loaded"
    /\ Len(jose.data.keys) = 2
    /\ jose.data.keys[1].kid = jose.data.keys[2].kid
    /\ jose.err = "Duplicate key ID in JKWSet"

\* the private scalars and the symmetric secrets of the document
Secrets == ({key.d : key \in DocumentKeys} \cup {key.k : key \in DocumentKeys}) \ {<<>>}

\* C27: VerifiersJSON emits only keys that are asymmetric (EC) and in the
\* verifier table; its output holds no member k and no member d, and no
\* member holds a symmetric secret or a private scalar of the document,
\* whatever key_ops the keys were loaded with.
C27_VerifiersPublic ==
    jose.pc = "published" =>
       \A key \in jose.keys :
          /\ key.kty = "EC"
          /\ key.kid \in DOMAIN jose.set.verifiers
          /\ DOMAIN key \cap {"d", "k"} = {}
          /\ \A n \in DOMAIN key \cap {"x", "y", "d", "k"} : key[n] \notin Secrets

C27_Witness ==
    /\ jose.pc = "published"
    /\ jose.keys # {}
    /\ \E kid \in DOMAIN jose.set.verifiers : jose.set.verifiers[kid].type = "jwkSymmetric"
    /\ \E kid \in DOMAIN jose.set.verifiers :
          /\ jose.set.verifiers[kid].type = "jwkECPub"
          /\ kid \in DOMAIN jose.set.signers

\* C28, as stated: for any token produced by Encode, changing any bit of
\* the base64url header, payload or signature part makes Decode fail, and
\* the failure is a bad-signature or bad-header error.
C28_TamperDetected ==
    (jose.pc = "decoded" /\ jose.changed # 0) =>
       jose.err \in {"illegal base64 data in header", "invalid JSON in header",
                     "No key with ID available in keyset for verification",
                     "Couldn't verify JWT"}

\* Encode has signed with an EC key
SignedEC ==
    /\ jose.pc = "encoded"
    /\ jose.err = ""
    /\ jose.changed = 0
    /\ jose.set.signers[jose.kid].type = "jwkECPriv"
Zeros(n) == [i \in 1..n |-> 0]

\* C29: for ES256/ES384/ES512 every signature produced by Sign is exactly
\* 64/96/132 bytes: R and S are each left-padded with zero bytes to the
\* half-length 32/48/66, also when their big-endian representation is
\* shorter.
C29_SignatureLength ==
    SignedEC =>
       LET alg == Algorithm(jose.set.signers[jose.kid])
           octets == jose.token[3].bytes.octets
           l == CASE alg = "ES256" -> 32 [] alg = "ES384" -> 48 [] alg = "ES512" -> 66
       IN  /\ alg \in {"ES256", "ES384", "ES512"}
           /\ Len(octets) = 2 * l
           /\ Len(octets) \in {64, 96, 132}
           /\ jose.token[3].len = Len(octets)
           /\ octets = Zeros(l - jose.rLen) \o scalarBytes(jose.rLen)
                       \o Zeros(l - jose.sLen) \o scalarBytes(jose.sLen)

C29_Witness ==
    /\ SignedEC
    /\ Algorithm(jose.set.signers[jose.kid]) = "ES512"
    /\ jose.rLen = 1
    /\ jose.sLen = 66
    /\ Len(jose.token[3].bytes.octets) = 132
    /\ jose.token[3].bytes.octets[65] = 0

(***************************************************************************)
(* The state codec on its own: stateStorage.persist encodes a state and    *)
(* hands it to the StateKeeper, stateStorage.restore decodes what the      *)
(* keeper returns into a zero authorizationState.  A Go value is the       *)
(* fields of the state and whether its Scope is the nil slice.             *)
(***************************************************************************)
goState(state, nilScope) == [state |-> state, nilScope |-> nilScope]

\* the slices a Scope can be: nil, or made by make([]string, n)
CodecScopes ==
    {p \in SeqsUpTo({"scope:1", "scope:2"}, MaxScopes) \X BOOLEAN :
        p[2] => Len(p[1]) = 0}

\* the states handed to persist
CodecStates ==
    {goState([ClientID |-> c, RedirectURI |-> u, ResponseType |-> t,
              Scope |-> p[1], State |-> st, IDPID |-> i], p[2]) :
        c \in {"", "testclient1"}, u \in {<<>>, <<"a">>}, t \in {"", "token"},
        p \in CodecScopes, st \in {"", "state"}, i \in {"", "testidp"}}

\* bytes in the keeper that no persist has written
BadStates == {[type |-> "badstate", fields |-> << >>],
              [type |-> "string", fields |-> [State |-> "state"]]}
CodecKey == "k1"

\* whether Decode leaves the Scope of a zero sink nil: gob sends no slice
\* of length zero, and Decode leaves alone the fields that were not sent
decodedScopeNil(encoded) == "Scope" \notin DOMAIN encoded.fields

codecFrame ==
    UNCHANGED <<now, clients, inputs, idpUsers, usedRefs, issued, authorize, callback,
                resp, persisted, restores, tokens, keeper, mutex, threads, redis,
                entry, jose, authz, ret>>

\* stateStorage.persist(key, data)
CodecPersist ==
    /\ codec.pc = "value"
    /\ LET r == stateMapPersist(values, expiries, CodecKey,
                                gobEncode(codec.x.state), StateLifetime, now)
       IN  /\ values' = r.values
           /\ expiries' = r.expiries
    /\ codec' = [pc |-> "stored", x |-> codec.x]
    /\ codecFrame

\* stateStorage.restore(key, &state) with a zero state
CodecRestore ==
    /\ codec.pc \in {"stored", "bytes"}
    /\ LET r == stateStorageRestore(values, expiries, CodecKey, now)
           untouched == r.err \/ decodedScopeNil(values[CodecKey])
       IN  /\ values' = r.values
           /\ expiries' = r.expiries
           /\ codec' = [pc |-> "restored", from |-> codec.pc, x |-> codec.x,
                        err |-> r.err,
                        y |-> goState(r.state, untouched)]
    /\ codecFrame

InitCodec ==
    /\ \/ /\ codec \in {[pc |-> "value", x |-> x] : x \in CodecStates}
          /\ values = << >>
          /\ expiries = << >>
       \/ /\ codec = [pc |-> "bytes", x |-> goState(emptyState, TRUE)]
          /\ \E b \in BadStates : values = (CodecKey :> b)
          /\ expiries = (CodecKey :> StateLifetime)
    /\ jose = idleJose
    /\ authz = idleAuthz
    /\ keeper = "stateMap"
    /\ mutex = "free"
    /\ threads = << >>
    /\ redis = << >>
    /\ entry = << >>
    /\ ret = noReturn
    /\ now = 0
    /\ idpUsers = {}
    /\ clients = << >>
    /\ inputs = {}
    /\ usedRefs = {}
    /\ issued = {}
    /\ authorize = idleAuthorize
    /\ callback = << >>
    /\ resp = noResponse
    /\ persisted = << >>
    /\ restores = [r \in Refs |-> 0]
    /\ tokens = [r \in Refs |-> 0]

NextCodec == CodecPersist \/ CodecRestore

SpecCodec == InitCodec /\ [][NextCodec]_vars

\* restore has returned for what persist stored
Restored == codec.pc = "restored" /\ codec.from = "stored"

C30_WitnessBadState ==
    /\ codec.pc = "restored"
    /\ codec.from = "bytes"
    /\ codec.err

(***************************************************************************)
(* Claims about the callback and the life of a stored state.               *)
(***************************************************************************)
\* C31, as stated: a callback served on /oauth2/callback/<X> issues a
\* token only if the restored state's IDPID equals X, so a reference
\* created by an authorize request for one IDP cannot be redeemed through
\* the callback of another registered IDP.
C31_CallbackIdpBound ==
    (CallbackAnswered /\ IsTokenRedirect(resp.rsp)) =>
        /\ resp.restored
        /\ resp.state.IDPID = resp.req.idp

\* a Persist has returned that found a live value under its key
Replaced == ret.op = "Persist" /\ ret.prev # noPrev

\* C32: Persist on a key that is already live silently replaces the stored
\* value and the deadline: the Persist returns no error and leaves its own
\* value and deadline in the store; the following Restore returns the
\* value of the last Persist, judged by the deadline of the last Persist,
\* so the first value can no longer be restored.
C32_PersistReplaces ==
    /\ ret.op = "Persist" =>
          /\ ~ret.err
          /\ ret.key \in DOMAIN entry
          /\ (ret.key \in DOMAIN values /\ InCriticalSection = {}) =>
                 values[ret.key] = ret.val
          /\ ret.key \in DOMAIN redis =>
                 (redis[ret.key].value = ret.val /\ redis[ret.key].exp = now + StateLifetime)
    /\ (RestoreReturned /\ ~ret.err) =>
          /\ ret.key \in DOMAIN entry
          /\ ret.val = entry[ret.key].value
          /\ now <= entry[ret.key].deadline
    /\ (RestoreReturned /\ ret.err /\ ret.key \in DOMAIN entry) =>
          \/ entry[ret.key].taken >= 1
          \/ now >= entry[ret.key].deadline
    /\ InCriticalSection = {} =>
          \A k \in DOMAIN values :
             /\ values[k] = entry[k].value
             /\ expiries[k] = entry[k].deadline
    /\ \A k \in DOMAIN redis :
          /\ redis[k].value = entry[k].value
          /\ redis[k].exp = entry[k].deadline

\* the second Persist has replaced another value and an earlier deadline
C32_Witness ==
    /\ Replaced
    /\ keeper = "stateMap"
    /\ ret.prev.value # ret.val
    /\ ret.prev.deadline < entry[ret.key].deadline
    /\ values[ret.key] = ret.val
    /\ expiries[ret.key] = entry[ret.key].deadline

C32_WitnessRedis ==
    /\ Replaced
    /\ keeper = "redisStorage"
    /\ ret.prev.value # ret.val
    /\ ret.prev.deadline < redis[ret.key].exp
    /\ redis[ret.key].value = ret.val


(***************************************************************************)
(* The life of a key in the state store                                    *)
(***************************************************************************)
\* a Restore of the key has succeeded since the key was last written
Consumed(k) == k \in DOMAIN entry /\ entry[k].taken >= 1

\* a Restore of the key has just returned the value
RestoredOk(k) == RestoreReturned /\ ~ret.err /\ ret.key = k

\* the step writes the key: the body of stateMap.Persist, or the SET of
\* redisStorage.Persist
PersistOf(k) ==
    \/ \E t \in Threads :
          /\ threads[t].pc = "body"
          /\ threads[t].op = "Persist"
          /\ threads[t].key = k
          /\ threads'[t].pc = "return"
    \/ /\ keeper = "redisStorage"
       /\ ret'.op = "Persist"
       /\ ret'.key = k

\* C33 as stated: consumed is terminal; once a Restore of a key has
\* succeeded, no later sequence of operations makes a Restore of that key
\* succeed again.
C33_Original ==
    \A k \in Keys :
        [](RestoredOk(k) => [](~RestoredOk(k) => []~RestoredOk(k)))

\* C33: each key is absent, live or consumed, and a consumed key stays
\* consumed until the next Persist of that key: no Restore of a consumed
\* key succeeds, and only a Persist of the key ends the consumed state, by
\* making the key live again.
C33_ConsumedUntilPersist ==
    [][\A k \in Keys :
          /\ (k \in DOMAIN entry) => (k \in DOMAIN entry')
          /\ Consumed(k) =>
                /\ ~RestoredOk(k)'
                /\ Consumed(k)' \/ PersistOf(k)
                /\ PersistOf(k) => entry'[k].taken = 0]_vars

\* a Restore of a key fails although the key was written: the key has been
\* consumed by an earlier Restore, before its deadline
C33_Witness ==
    /\ RestoreReturned
    /\ ret.err
    /\ Consumed(ret.key)
    /\ now < entry[ret.key].deadline


(***************************************************************************)
(* The state store with a fair scheduler: the clock goes on, and a         *)
(* goroutine that has entered Persist or Restore runs on to its return.    *)
(* Nothing obliges a caller to call: no callback has to arrive.            *)
(***************************************************************************)
SpecStoreLive ==
    /\ InitStore
    /\ [][NextStore]_vars
    /\ WF_vars(Tick)
    /\ \A t \in Threads :
          WF_vars(\/ StateMapLock(t)
                  \/ StateMapPersistWrite(t)
                  \/ StateMapPersistReturn(t)
                  \/ StateMapRestoreLookup(t)
                  \/ StateMapRestoreDelete(t)
                  \/ StateMapRestoreReturn(t)
                  \/ RedisRestoreExec(t))

\* the store holds a value under the key: an entry of the maps of stateMap,
\* or a key the Redis server has not yet expired
Held(k) ==
    IF keeper = "stateMap"
    THEN k \in DOMAIN values \/ k \in DOMAIN expiries
    ELSE ~redisGet(redis, k, now).nil

\* the deadline of the value persisted under the key has passed
DeadlinePassed(k) == k \in DOMAIN entry /\ now > entry[k].deadline

\* C34: once the deadline of a persisted state has passed, the state is
\* eventually no longer held by the store, also when no Restore is ever
\* called for its key.
C34_ExpiredStateRemoved ==
    \A k \in Keys : (DeadlinePassed(k) /\ Held(k)) ~> ~Held(k)

(***************************************************************************)
(* The restore step of serveIDPCallback and the callbacks after it         *)
(***************************************************************************)
\* the step is serveIDPCallback from stateStore.restore to its response
RestoreStep(c) == callback[c].pc = "restore" /\ callback'[c].pc = "idle"

\* C35: a callback that reaches the restore step consumes the state
\* whatever its outcome: after the step the store holds nothing under the
\* reference, and a callback with a reference that an earlier callback has
\* restored is answered 400 'invalid state token', also where the earlier
\* callback ended in access_denied, in a 500 or in server_error.
C35_RestoreConsumes ==
    [][\A c \in DOMAIN callback :
          RestoreStep(c) =>
             LET ref == callback[c].req.ref
             IN  /\ ref \notin DOMAIN values'
                 /\ ref \notin DOMAIN expiries'
                 /\ resp'.handler = "callback"
                 /\ resp'.reachedStore
                 /\ (ref \in Refs /\ restores[ref] >= 1) =>
                       /\ ~resp'.restored
                       /\ resp'.rsp = InvalidStateToken
                       /\ tokens' = tokens]_vars

\* the second callback with a reference, before the deadline of the state,
\* after a first one that restored the state and issued no token
C35_Witness ==
    /\ CallbackAnswered
    /\ resp.reachedStore
    /\ ~resp.restored
    /\ resp.rsp = InvalidStateToken
    /\ resp.req.ref \in DOMAIN persisted
    /\ restores[resp.req.ref] = 1
    /\ tokens[resp.req.ref] = 0
    /\ now <= persisted[resp.req.ref].deadline

\* the outcomes of the first callback that leave the state consumed
C35_WitnessAccessDenied ==
    /\ CallbackAnswered
    /\ resp.restored
    /\ resp.rsp.status = StatusSeeOther
    /\ resp.rsp.location.kind = "error"
    /\ resp.rsp.location.error = "access_denied"
    /\ resp.req.ref \notin DOMAIN values

C35_WitnessServerError ==
    /\ CallbackAnswered
    /\ resp.restored
    /\ resp.rsp.status = StatusSeeOther
    /\ resp.rsp.location.kind = "error"
    /\ resp.rsp.location.error = "server_error"
    /\ resp.req.ref \notin DOMAIN values

C35_WitnessInternalError ==
    /\ CallbackAnswered
    /\ resp.restored
    /\ resp.rsp.status = StatusInternalServerError
    /\ resp.req.ref \notin DOMAIN values

(***************************************************************************)
(* Callbacks answered before the restore step                              *)
(***************************************************************************)
\* the step is serveIDPCallback answering before stateStore.restore
EarlyRejectStep(c) ==
    /\ callback[c].pc = "idle"
    /\ callback'[c].pc = "idle"
    /\ resp'.handler = "callback"

\* the step is serveIDPCallback getting as far as stateStore.restore
ReachStoreStep(c) == callback[c].pc = "idle" /\ callback'[c].pc = "restore"

\* C36: a callback that is rejected before the restore step (non-GET method
\* answered 405, AuthnCallback error answered 500, empty authzRef answered
\* 400) leaves the state store unchanged, and no such callback gets as far
\* as the store; so a later callback with the same reference that reaches
\* the restore step before the deadline, the first to do so, still restores
\* the state.
C36_EarlyRejectKeepsStore ==
    [][\A c \in DOMAIN callback :
          /\ EarlyRejectStep(c) =>
                /\ ~resp'.reachedStore
                /\ values' = values
                /\ expiries' = expiries
                /\ restores' = restores
                /\ resp'.req.method # "GET" =>
                      resp'.rsp.status = StatusMethodNotAllowed
                /\ (resp'.req.method = "GET" /\ resp'.req.idp \in idps /\ resp'.req.err) =>
                      resp'.rsp.status = StatusInternalServerError
                /\ (resp'.req.method = "GET" /\ resp'.req.idp \in idps /\ ~resp'.req.err) =>
                      /\ resp'.req.ref = EmptyRef
                      /\ resp'.rsp.status = StatusBadRequest
          /\ ReachStoreStep(c) =>
                /\ callback'[c].req.method = "GET"
                /\ ~callback'[c].req.err
                /\ callback'[c].req.ref # EmptyRef
          /\ (/\ RestoreStep(c)
              /\ callback[c].req.ref \in DOMAIN persisted
              /\ restores[callback[c].req.ref] = 0
              /\ now <= persisted[callback[c].req.ref].deadline) =>
                /\ resp'.restored
                /\ resp'.state = persisted[callback[c].req.ref].state]_vars

\* a callback with the reference of a live state has been answered 500 on
\* the error of AuthnCallback, and the store still holds the state
C36_Witness ==
    /\ CallbackAnswered
    /\ ~resp.reachedStore
    /\ resp.req.err
    /\ resp.rsp.status = StatusInternalServerError
    /\ resp.req.ref \in DOMAIN persisted
    /\ resp.req.ref \in DOMAIN values
    /\ resp.req.ref \in DOMAIN expiries
    /\ restores[resp.req.ref] = 0
    /\ now <= persisted[resp.req.ref].deadline

\* the same for the 405 and for the 400 of the empty reference, with a live
\* state in the store
C36_WitnessMethod ==
    /\ CallbackAnswered
    /\ ~resp.reachedStore
    /\ resp.req.method # "GET"
    /\ resp.rsp.status = StatusMethodNotAllowed
    /\ \E r \in DOMAIN values : now <= persisted[r].deadline

C36_WitnessEmptyRef ==
    /\ CallbackAnswered
    /\ ~resp.reachedStore
    /\ resp.req.method = "GET"
    /\ ~resp.req.err
    /\ resp.req.ref = EmptyRef
    /\ resp.rsp.status = StatusBadRequest
    /\ \E r \in DOMAIN values : now <= persisted[r].deadline

(***************************************************************************)
(* The scope provider datapuntAuthz: two tables, each behind its own       *)
(* sync.RWMutex, replaced by runUpdate while goroutines call ValidScope    *)
(* and ScopeSetFor.                                                        *)
(***************************************************************************)
\* the elements of a slice
elems(s) == {s[i] : i \in 1..Len(s)}

\* s.roleMap[role]: the nil slice for a role the map does not hold
roleMapAt(roleMap, role) ==
    IF role \in DOMAIN roleMap THEN roleMap[role] ELSE << >>

\* datapuntScopeSet.ValidScope: every scope is a key of the map
scopeSetValidScope(s, scope) == \A i \in 1..Len(scope) : scope[i] \in s

\* the two innermost loops of runUpdate, for one role of an embedded item
addRole(acc, role, scopes) ==
    IF Len(scopes) = 0 THEN acc
    ELSE [scopes |-> acc.scopes \cup elems(scopes),
          roleMap |-> (role :> (roleMapAt(acc.roleMap, role) \o scopes))
                      @@ acc.roleMap]

RECURSIVE addRoles(_, _, _)
addRoles(acc, roles, scopes) ==
    IF Len(roles) = 0 THEN acc
    ELSE addRoles(addRole(acc, Head(roles), scopes), Tail(roles), scopes)

\* Parse: _embedded -> item[i] -> _links -> item[j] -> name
RECURSIVE parseItems(_, _)
parseItems(acc, items) ==
    IF Len(items) = 0 THEN acc
    ELSE parseItems(addRoles(acc, Head(items).role, Head(items).scope),
                    Tail(items))

\* the tables runUpdate builds from a decoded document
parseProfiles(doc) == parseItems([scopes |-> {}, roleMap |-> << >>], doc)

\* the documents the authorization service serves, with their ETag
Profiles ==
    { [etag |-> "A",
       item |-> << [role |-> <<"r1">>, scope |-> <<"s1">>] >>],
      [etag |-> "B",
       item |-> << [role |-> <<"r2">>, scope |-> <<"s2">>] >>],
      [etag |-> "C",
       item |-> << [role |-> <<"r1", "r2">>, scope |-> <<"s1", "s2">>],
                   [role |-> <<"r1">>, scope |-> <<"s1">>] >>] }

\* what s.client.Do and the decoder make of a request: a transport error, a
\* 304, another status, a body that does not decode, or a document
UpdateResponses(etag) ==
    {[kind |-> "error"], [kind |-> "status"], [kind |-> "undecodable"]}
    \cup (IF etag # "" THEN {[kind |-> "304"]} ELSE {})
    \cup {[kind |-> "200", doc |-> d] : d \in Profiles}

\* the arguments of the calls: scopes to validate, and the Data of a user
\* (a []string of roles, or something else)
ScopeQueries == {<<"s1">>, <<"s1", "s2">>}
UserData ==
    { [ok |-> TRUE, roles |-> <<"r1", "r2">>],
      [ok |-> TRUE, roles |-> <<"r2">>],
      [ok |-> FALSE, roles |-> << >>] }

\* the goroutines that call the provider
Callers == {"g1", "g2"}

\* sync.RWMutex: a writer flag and the goroutines that hold it for reading
freeRWMutex == [w |-> FALSE, r |-> {}]

\* mutant: Lock does not wait for the readers
lockFreeIgnoringReaders(l) == ~l.w

\* Lock returns when no writer and no reader holds the mutex
lockFree(l) == ~l.w /\ l.r = {}

\* RLock returns when no writer holds the mutex.  (A pending Lock may hold
\* back new readers; the model allows every order the mutex allows.)
rLockFree(l) == ~l.w

noHeld == [set |-> {}, roles |-> << >>, seen |-> {}, n |-> 0]
idleCaller == [pc |-> "idle", held |-> noHeld]

authzFrame ==
    UNCHANGED <<engineVars, keeper, mutex, threads, redis, entry, jose, codec>>

\* runUpdate up to the tables built from the response; every return before
\* them leaves the provider as it is
RunUpdateRequest ==
    /\ authz.upd.pc = "idle"
    /\ \E rsp \in UpdateResponses(authz.etag) :
         IF rsp.kind = "200"
         THEN /\ authz' = [authz EXCEPT !.upd =
                              [pc |-> "scopeLock",
                               scopes |-> parseProfiles(rsp.doc.item).scopes,
                               roleMap |-> parseProfiles(rsp.doc.item).roleMap,
                               etag |-> rsp.doc.etag]]
              /\ ret' = noReturn
         ELSE /\ UNCHANGED authz
              /\ ret' = [op |-> "runUpdate",
                         err |-> rsp.kind \in {"error", "undecodable"},
                         updated |-> FALSE]
    /\ authzFrame

\* s.scopeLock.Lock()
RunUpdateScopeLock ==
    /\ authz.upd.pc = "scopeLock"
    /\ lockFree(authz.scopeLock)
    /\ authz' = [authz EXCEPT !.scopeLock.w = TRUE, !.upd.pc = "allScopes"]
    /\ ret' = noReturn
    /\ authzFrame

\* s.allScopes = scopes; s.scopeLock.Unlock()
RunUpdateAllScopes ==
    /\ authz.upd.pc = "allScopes"
    /\ authz' = [authz EXCEPT
                   !.allScopes = authz.upd.scopes,
                   !.scopeLock.w = FALSE,
                   !.upd.pc = "roleLock",
                   \* history: the tables in place during a call
                   !.g = [c \in Callers |->
                            IF authz.g[c].pc = "body" /\ authz.g[c].op = "ValidScope"
                            THEN [authz.g[c] EXCEPT !.seen = @ \cup {authz.upd.scopes}]
                            ELSE authz.g[c]]]
    /\ ret' = noReturn
    /\ authzFrame

\* s.roleLock.Lock()
RunUpdateRoleLock ==
    /\ authz.upd.pc = "roleLock"
    /\ lockFree(authz.roleLock)
    /\ authz' = [authz EXCEPT !.roleLock.w = TRUE, !.upd.pc = "roleMap"]
    /\ ret' = noReturn
    /\ authzFrame

\* s.roleMap = roleMap; s.roleLock.Unlock(); s.etag = ...; return nil
RunUpdateRoleMap ==
    /\ authz.upd.pc = "roleMap"
    /\ authz' = [authz EXCEPT
                   !.roleMap = authz.upd.roleMap,
                   !.roleLock.w = FALSE,
                   !.etag = authz.upd.etag,
                   !.upd = [pc |-> "idle"],
                   !.g = [c \in Callers |->
                            IF authz.g[c].pc \in {"body", "loop"}
                               /\ authz.g[c].op = "ScopeSetFor"
                            THEN [authz.g[c] EXCEPT !.seen = @ \cup {authz.upd.roleMap}]
                            ELSE authz.g[c]]]
    /\ ret' = [op |-> "runUpdate", err |-> FALSE, updated |-> TRUE]
    /\ authzFrame

\* a goroutine calls ValidScope, or ScopeSetFor, which begins with
\* scopeSet := make(datapuntScopeSet); it lets go of the set of its last
\* call
ProviderCall(c) ==
    /\ authz.g[c].pc = "idle"
    /\ \/ \E q \in ScopeQueries :
             authz' = [authz EXCEPT !.g[c] =
                          [pc |-> "rlock", op |-> "ValidScope", scope |-> q,
                           held |-> noHeld]]
       \/ \E u \in UserData :
             authz' = [authz EXCEPT !.g[c] =
                          [pc |-> "rlock", op |-> "ScopeSetFor", data |-> u,
                           scopeSet |-> {}, held |-> noHeld]]
    /\ ret' = noReturn
    /\ authzFrame

\* s.scopeLock.RLock() of ValidScope
ValidScopeRLock(c) ==
    /\ authz.g[c].pc = "rlock"
    /\ authz.g[c].op = "ValidScope"
    /\ rLockFree(authz.scopeLock)
    /\ authz' = [authz EXCEPT
                   !.scopeLock.r = @ \cup {c},
                   !.g[c] = [pc |-> "body", op |-> "ValidScope",
                             scope |-> authz.g[c].scope,
                             seen |-> {authz.allScopes},
                             held |-> authz.g[c].held]]
    /\ ret' = noReturn
    /\ authzFrame

\* return s.allScopes.ValidScope(scope...), and the deferred RUnlock
ValidScopeReturn(c) ==
    /\ authz.g[c].pc = "body"
    /\ authz.g[c].op = "ValidScope"
    /\ ret' = [op |-> "ValidScope", scope |-> authz.g[c].scope,
               result |-> scopeSetValidScope(authz.allScopes, authz.g[c].scope),
               seen |-> authz.g[c].seen]
    /\ authz' = [authz EXCEPT
                   !.scopeLock.r = @ \ {c},
                   !.g[c] = [pc |-> "idle", held |-> authz.g[c].held]]
    /\ authzFrame

\* s.roleLock.RLock() of ScopeSetFor
ScopeSetForRLock(c) ==
    /\ authz.g[c].pc = "rlock"
    /\ authz.g[c].op = "ScopeSetFor"
    /\ rLockFree(authz.roleLock)
    /\ authz' = [authz EXCEPT
                   !.roleLock.r = @ \cup {c},
                   !.g[c] = [pc |-> "body", op |-> "ScopeSetFor",
                             data |-> authz.g[c].data, scopeSet |-> {},
                             seen |-> {authz.roleMap},
                             held |-> authz.g[c].held]]
    /\ ret' = noReturn
    /\ authzFrame

\* roles, ok := u.Data.([]string), with the return of the error
ScopeSetForRoles(c) ==
    /\ authz.g[c].pc = "body"
    /\ authz.g[c].op = "ScopeSetFor"
    /\ IF authz.g[c].data.ok
       THEN /\ authz' = [authz EXCEPT !.g[c] =
                            [pc |-> "loop", op |-> "ScopeSetFor",
                             roles |-> authz.g[c].data.roles, i |-> 1,
                             scopeSet |-> {}, seen |-> authz.g[c].seen,
                             held |-> authz.g[c].held]]
            /\ ret' = noReturn
       ELSE /\ authz' = [authz EXCEPT
                            !.roleLock.r = @ \ {c},
                            !.g[c] = [pc |-> "idle", held |-> authz.g[c].held]]
            /\ ret' = [op |-> "ScopeSetFor", err |-> TRUE, set |-> {},
                       roles |-> << >>, seen |-> authz.g[c].seen]
    /\ authzFrame

\* one round of the loop over the roles: the scopes of s.roleMap[role] are
\* added to scopeSet
ScopeSetForLoop(c) ==
    /\ authz.g[c].pc = "loop"
    /\ authz.g[c].i <= Len(authz.g[c].roles)
    /\ authz' = [authz EXCEPT
                   !.g[c].scopeSet =
                       @ \cup elems(roleMapAt(authz.roleMap,
                                              authz.g[c].roles[authz.g[c].i])),
                   !.g[c].i = @ + 1]
    /\ ret' = noReturn
    /\ authzFrame

\* return scopeSet, nil, and the deferred RUnlock; the caller keeps the set
ScopeSetForReturn(c) ==
    /\ authz.g[c].pc = "loop"
    /\ authz.g[c].i > Len(authz.g[c].roles)
    /\ ret' = [op |-> "ScopeSetFor", err |-> FALSE,
               set |-> authz.g[c].scopeSet, roles |-> authz.g[c].roles,
               seen |-> authz.g[c].seen]
    /\ authz' = [authz EXCEPT
                   !.roleLock.r = @ \ {c},
                   !.g[c] = [pc |-> "idle",
                             held |-> [set |-> authz.g[c].scopeSet,
                                       roles |-> authz.g[c].roles,
                                       seen |-> authz.g[c].seen,
                                       n |-> 1]]]
    /\ authzFrame

\* newDatapuntAuthz: empty tables, then the first runUpdate, which installs
\* a document or returns without one, before the updater goroutine starts
InitAuthz ==
    /\ \E t \in {[scopes |-> {}, roleMap |-> << >>, etag |-> ""]}
                \cup {[scopes |-> parseProfiles(d.item).scopes,
                       roleMap |-> parseProfiles(d.item).roleMap,
                       etag |-> d.etag] : d \in Profiles} :
          authz = [allScopes |-> t.scopes, roleMap |-> t.roleMap,
                   etag |-> t.etag,
                   scopeLock |-> freeRWMutex, roleLock |-> freeRWMutex,
                   upd |-> [pc |-> "idle"],
                   g |-> [c \in Callers |-> idleCaller]]
    /\ jose = idleJose
    /\ codec = idleCodec
    /\ keeper = "stateMap"
    /\ mutex = "free"
    /\ threads = << >>
    /\ redis = << >>
    /\ entry = << >>
    /\ ret = noReturn
    /\ now = 0
    /\ idpUsers = {}
    /\ clients = << >>
    /\ inputs = {}
    /\ values = << >>
    /\ expiries = << >>
    /\ usedRefs = {}
    /\ issued = {}
    /\ authorize = idleAuthorize
    /\ callback = << >>
    /\ resp = noResponse
    /\ persisted = << >>
    /\ restores = [r \in Refs |-> 0]
    /\ tokens = [r \in Refs |-> 0]

NextAuthz ==
    \/ RunUpdateRequest
    \/ RunUpdateScopeLock
    \/ RunUpdateAllScopes
    \/ RunUpdateRoleLock
    \/ RunUpdateRoleMap
    \/ \E c \in Callers : ProviderCall(c)
    \/ \E c \in Callers : ValidScopeRLock(c)
    \/ \E c \in Callers : ValidScopeReturn(c)
    \/ \E c \in Callers : ScopeSetForRLock(c)
    \/ \E c \in Callers : ScopeSetForRoles(c)
    \/ \E c \in Callers : ScopeSetForLoop(c)
    \/ \E c \in Callers : ScopeSetForReturn(c)

SpecAuthz == InitAuthz /\ [][NextAuthz]_vars

\* the scope set ScopeSetFor builds from one role map
roleScopes(roleMap, roles) ==
    UNION {elems(roleMapAt(roleMap, roles[i])) : i \in 1..Len(roles)}

\* C37: while runUpdate replaces the tables, every ValidScope call is
\* evaluated wholly against one valid-scope set that was in place during
\* the call, every ScopeSetFor call wholly against one role map that was in
\* place during the call, and a scope set ScopeSetFor has returned stays as
\* it was returned whatever runUpdate installs afterwards.
C37_ConsistentSnapshot ==
    /\ ret.op = "ValidScope" =>
          \E s \in ret.seen : ret.result = scopeSetValidScope(s, ret.scope)
    /\ (ret.op = "ScopeSetFor" /\ ~ret.err) =>
          \E m \in ret.seen : ret.set = roleScopes(m, ret.roles)
    /\ \A c \in Callers :
          authz.g[c].held.n = 1 =>
             \E m \in authz.g[c].held.seen :
                authz.g[c].held.set = roleScopes(m, authz.g[c].held.roles)

\* ScopeSetFor has returned while runUpdate, with the valid-scope set
\* already replaced, waited for the role lock with another role map
C37_Witness ==
    /\ ret.op = "ScopeSetFor"
    /\ ~ret.err
    /\ Len(ret.roles) = 2
    /\ authz.upd.pc = "roleLock"
    /\ authz.allScopes = authz.upd.scopes
    /\ roleScopes(authz.upd.roleMap, ret.roles) # ret.set
    /\ ret.set = roleScopes(authz.roleMap, ret.roles)

\* ValidScope has returned the answer of the old set while runUpdate waited
\* with a set that gives the other answer
C37_WitnessValidScope ==
    /\ ret.op = "ValidScope"
    /\ authz.upd.pc = "scopeLock"
    /\ ret.result # scopeSetValidScope(authz.upd.scopes, ret.scope)

\* a caller holds a scope set of an earlier call that the role map now in
\* place would not give
C37_WitnessHeld ==
    \E c \in Callers :
       /\ authz.g[c].held.n = 1
       /\ authz.roleMap \notin authz.g[c].held.seen
       /\ roleScopes(authz.roleMap, authz.g[c].held.roles) # authz.g[c].held.set

(***************************************************************************)
(* checkStateStore: every handler that is given a state store persists the *)
(* key "test", restores it and restores it again.  Handlers that share one *)
(* store (replicas on one Redis server, or one StateKeeper handed to       *)
(* several handlers) run the check side by side.  A call of the keeper is  *)
(* one step: stateMap holds its mutex for the whole call, Redis runs SET   *)
(* and the MULTI/EXEC block one at a time.  The check is over long before  *)
(* the lifetime of the key ends, so the clock stands still.                *)
(***************************************************************************)
Instances == {"h1", "h2", "h3"}

TestKey == "test"

\* gob of struct{}{}: the type and no fields
gobEncodeEmptyStruct == [type |-> "struct {}", fields |-> << >>]

\* dec.Decode(&struct{}{}) of what the keeper returned
gobDecodeEmptyStruct(encoded) == [err |-> encoded.type # "struct {}"]

\* StateKeeper.Persist of the keeper in use
keeperPersist(key, value) ==
    IF keeper = "stateMap"
    THEN LET w == stateMapPersist(values, expiries, key, value, StateLifetime, now)
         IN  [values |-> w.values, expiries |-> w.expiries, redis |-> redis]
    ELSE [values |-> values, expiries |-> expiries,
          redis |-> redisSetEx(redis, key, value, StateLifetime, now)]

\* StateKeeper.Restore of the keeper in use
keeperRestore(key) ==
    IF keeper = "stateMap"
    THEN LET r == stateMapRestore(values, expiries, key, now)
         IN  [values |-> r.values, expiries |-> r.expiries, redis |-> redis,
              err |-> r.err, val |-> r.val]
    ELSE LET vals0 == redisGet(redis, key, now)
         IN  [values |-> values, expiries |-> expiries,
              redis |-> without(redis, key),
              err |-> vals0.nil, val |-> vals0.value]

\* whether the call of the keeper breaks down: a Redis connection can fail,
\* the map cannot
StoreFaults == IF keeper = "redisStorage" THEN BOOLEAN ELSE {FALSE}

checkFrame ==
    UNCHANGED <<now, clients, inputs, idpUsers, usedRefs, issued, authorize,
                callback, resp, persisted, restores, tokens, keeper, mutex,
                entry, jose, codec, authz, ret>>

\* h.stateStore.persist("test", struct{}{}), log.Fatalf on an error
CheckPersist(h) ==
    /\ threads[h].pc = "persist"
    /\ \E fault \in StoreFaults :
         IF fault
         THEN /\ threads' = [threads EXCEPT ![h] = [pc |-> "fatal", storeFailed |-> TRUE]]
              /\ UNCHANGED <<values, expiries, redis>>
         ELSE LET w == keeperPersist(TestKey, gobEncodeEmptyStruct)
              IN  /\ values' = w.values
                  /\ expiries' = w.expiries
                  /\ redis' = w.redis
                  /\ threads' = [threads EXCEPT ![h].pc = "restore"]
    /\ checkFrame

\* h.stateStore.restore("test", &struct{}{}), log.Fatalf on an error
CheckRestore(h) ==
    /\ threads[h].pc = "restore"
    /\ \E fault \in StoreFaults :
         IF fault
         THEN /\ threads' = [threads EXCEPT ![h] = [pc |-> "fatal", storeFailed |-> TRUE]]
              /\ UNCHANGED <<values, expiries, redis>>
         ELSE LET r == keeperRestore(TestKey)
                  err == r.err \/ gobDecodeEmptyStruct(r.val).err
              IN  /\ values' = r.values
                  /\ expiries' = r.expiries
                  /\ redis' = r.redis
                  /\ threads' = [threads EXCEPT ![h].pc =
                                    IF err THEN "fatal" ELSE "restoreAgain"]
    /\ checkFrame

\* the second h.stateStore.restore("test", &struct{}{}), log.Fatal when it
\* returns no error
CheckRestoreAgain(h) ==
    /\ threads[h].pc = "restoreAgain"
    /\ \E fault \in StoreFaults :
         IF fault
         THEN /\ threads' = [threads EXCEPT ![h] = [pc |-> "passed", storeFailed |-> TRUE]]
              /\ UNCHANGED <<values, expiries, redis>>
         ELSE LET r == keeperRestore(TestKey)
                  err == r.err \/ gobDecodeEmptyStruct(r.val).err
              IN  /\ values' = r.values
                  /\ expiries' = r.expiries
                  /\ redis' = r.redis
                  /\ threads' = [threads EXCEPT ![h].pc =
                                    IF err THEN "passed" ELSE "fatal"]
    /\ checkFrame

\* handlers about to run the check on an empty store
InitCheck ==
    /\ keeper \in {"stateMap", "redisStorage"}
    /\ threads = [h \in Instances |-> [pc |-> "persist", storeFailed |-> FALSE]]
    /\ values = << >>
    /\ expiries = << >>
    /\ redis = << >>
    /\ mutex = "free"
    /\ entry = << >>
    /\ jose = idleJose
    /\ codec = idleCodec
    /\ authz = idleAuthz
    /\ ret = noReturn
    /\ now = 0
    /\ idpUsers = {}
    /\ clients = << >>
    /\ inputs = {}
    /\ usedRefs = {}
    /\ issued = {}
    /\ authorize = idleAuthorize
    /\ callback = << >>
    /\ resp = noResponse
    /\ persisted = << >>
    /\ restores = [r \in Refs |-> 0]
    /\ tokens = [r \in Refs |-> 0]

NextCheck ==
    \/ \E h \in Instances : CheckPersist(h)
    \/ \E h \in Instances : CheckRestore(h)
    \/ \E h \in Instances : CheckRestoreAgain(h)

SpecCheck == InitCheck /\ [][NextCheck]_vars

\* C38: checkStateStore passes on a StateKeeper that implements single
\* consumption, also when several handlers that share the store run the
\* check side by side: a handler aborts only after a call of the store has
\* broken down.
C38_CheckPasses ==
    \A h \in Instances :
        threads[h].pc = "fatal" => threads[h].storeFailed
=============================================================================
